---- MODULE Spec2Model ----
(***************************************************************************)
(* Provider runtime manager of the gateway (createProviderManager in       *)
(* src/src/gateway/server-providers.ts): per (provider, account) it owns   *)
(* the live connection task, its AbortController and the status snapshot.  *)
(* Every await of the code is a suspension point of the model: the code    *)
(* before it and the code after it are separate atomic actions.            *)
(***************************************************************************)
EXTENDS Integers, Sequences, FiniteSets, TLC

(* ------------------------------ bounds --------------------------------- *)

\* manager operations (startProvider / stopProvider calls) issued in one run
MaxCalls == 3
\* connection tasks (gateway.startAccount invocations) in one run
MaxTasks == 2
\* params.start() calls of the gateway run loop in one run
MaxStarts == 3
\* signals delivered to the gateway process in one run
MaxSignals == 4
\* normalized payloads in one deliverOutboundPayloads call
MaxPayloads == 3
\* characters of a destination string
MaxLen == 2

(* --------------------------- plugin registry --------------------------- *)

\* two of the registered plugins, in registry order
PROVIDERS == <<"whatsapp", "discord">>

ProviderIds == {PROVIDERS[i] : i \in DOMAIN PROVIDERS}

listProviderPlugins == PROVIDERS

DEFAULT_ACCOUNT_ID == "default"

\* null is the empty set and a value v is {v}: a field is null or holds a value
Null == {}

Some(v) == {v}

\* plugin.config.listAccountIds(cfg)
listAccountIds(c, p) == c.accounts[p]

\* plugin.config.resolveAccount(cfg, id): the facts the manager reads of it
resolveAccount(c, p, id) ==
  [accountId |-> id,
   enabled |-> <<p, id>> \notin c.disabled,
   token |-> IF p = "discord" THEN c.discordToken ELSE FALSE]

isAccountEnabled(account) == account.enabled # FALSE

\* mutant: the global WhatsApp switch is not consulted
AccountEnabledNoWeb(c, p, id) == isAccountEnabled(resolveAccount(c, p, id))

\* line 235-237 and 381-383: the account flag and the global WhatsApp switch
AccountEnabled(c, p, id) ==
  /\ isAccountEnabled(resolveAccount(c, p, id))
  /\ ~(p = "whatsapp" /\ c.web.enabled = FALSE)

\* The promise plugin.config.isConfigured(account, cfg) returns. Discord
\* computes Boolean(account.token?.trim()) at the call; WhatsApp awaits a
\* check of the credential directory, which settles later ("pending").
isConfigured(p, account) ==
  IF p = "discord" THEN (IF account.token THEN "true" ELSE "false")
  ELSE "pending"

\* what a pending isConfigured promise can settle to
IsConfiguredOutcomes == {"true", "false", "reject"}

\* plugin.config.describeAccount(account, cfg).configured
describeConfigured(p, account) ==
  IF p = "discord" THEN account.token ELSE TRUE

\* formatErrorMessage(err): the message of the error
formatErrorMessage(err) == err.message

\* the errors a connection task rejects with
Errors == {[message |-> "connection lost"]}

(* ------------------------------ snapshots ------------------------------ *)

DEFAULT_RUNTIME ==
  [whatsapp |->
     [accountId |-> DEFAULT_ACCOUNT_ID,
      running |-> FALSE,
      connected |-> FALSE,
      reconnectAttempts |-> 0,
      lastConnectedAt |-> Null,
      lastDisconnect |-> Null,
      lastMessageAt |-> Null,
      lastEventAt |-> Null,
      lastError |-> Null],
   discord |->
     [accountId |-> DEFAULT_ACCOUNT_ID,
      running |-> FALSE,
      lastStartAt |-> Null,
      lastStopAt |-> Null,
      lastError |-> Null]]

\* { ...a, ...b }: the fields of b over the fields of a
Spread(a, b) ==
  [k \in DOMAIN a \cup DOMAIN b |-> IF k \in DOMAIN b THEN b[k] ELSE a[k]]

cloneDefaultRuntime(p, id) == Spread(DEFAULT_RUNTIME[p], [accountId |-> id])

\* a field read with ?? null: null when the field is absent
Field(snap, k) == IF k \in DOMAIN snap THEN snap[k] ELSE Null

\* snap.running read as a condition: undefined is falsy
Running(snap) == "running" \in DOMAIN snap /\ snap.running

(* -------------------------------- maps --------------------------------- *)

EmptyMap == <<>>

MapHas(m, k) == k \in DOMAIN m

MapSet(m, k, v) == [x \in DOMAIN m \cup {k} |-> IF x = k THEN v ELSE m[x]]

MapDelete(m, k) == [x \in DOMAIN m \ {k} |-> m[x]]

\* store.aborts.get(id) / store.tasks.get(id): 0 stands for undefined
MapGet(m, k) == IF MapHas(m, k) THEN m[k] ELSE 0

createRuntimeStore ==
  [aborts |-> EmptyMap, tasks |-> EmptyMap, runtimes |-> EmptyMap]

(* ------------------------------- state --------------------------------- *)

VARIABLES
  providerStores,  \* providerId -> [aborts, tasks, runtimes]
  conns,           \* the connection tasks startAccount returned, not yet
                   \* through their .finally: id -> [providerId, accountId,
                   \* aborted, state, err, tracked]; the id also names the
                   \* task's AbortController and its tracked promise
  ntasks,          \* startAccount invocations so far
  calls,           \* startProvider / stopProvider calls not yet returned:
                   \* id -> [op, providerId, flows], one flow per account
                   \* id: [pc, enabled, promise, task], the position and
                   \* the locals of the per-account callback
  ncalls,          \* calls issued so far
  returned,        \* the call that returned last, as its caller saw it
  boot,            \* the startProviders() loop: [pc, index, call]
  now              \* Date.now(): advances at every read

vars == <<providerStores, conns, ntasks, calls, ncalls, returned, boot, now>>

VARIABLE
  hooks            \* the plugins that declare gateway.stopAccount

\* the registered plugins: none declares gateway.stopAccount
NoHooks == hooks = {}

\* plugins that declare gateway.stopAccount
AllHooks == hooks = ProviderIds

Accounts == [whatsapp |-> {"default"}, discord |-> {"default"}]

Keys == {<<p, id>> : p \in ProviderIds, id \in {DEFAULT_ACCOUNT_ID}}

\* what listAccountIds returns per plugin: every account, or, once the
\* Discord account has been removed from the configuration, none for Discord
AccountLists == {Accounts, [Accounts EXCEPT !.discord = {}]}

Configs ==
  [accounts : AccountLists,
   disabled : SUBSET {<<"discord", "default">>},
   web : [enabled : BOOLEAN],
   discordToken : BOOLEAN]

NoCall ==
  [op |-> "none", providerId |-> "none", listed |-> {}, flows |-> <<>>]

getStore(stores, p) == stores[p]

getRuntime(stores, p, id) ==
  IF MapHas(getStore(stores, p).runtimes, id)
  THEN getStore(stores, p).runtimes[id]
  ELSE cloneDefaultRuntime(p, id)

\* mutant: next = { ...patch, accountId }
setRuntimeReplaces(stores, p, id, patch) ==
  [stores EXCEPT ![p].runtimes = MapSet(@, id, Spread(patch, [accountId |-> id]))]

\* next = { ...current, ...patch, accountId }
setRuntime(stores, p, id, patch) ==
  [stores EXCEPT
     ![p].runtimes =
       MapSet(@, id,
              Spread(Spread(getRuntime(stores, p, id), patch),
                     [accountId |-> id]))]

Init ==
  /\ providerStores = [p \in ProviderIds |-> createRuntimeStore]
  /\ conns = EmptyMap
  /\ ntasks = 0
  /\ calls = EmptyMap
  /\ ncalls = 0
  /\ returned = NoCall
  /\ boot = [pc |-> "idle", index |-> 0, call |-> 0]
  /\ now = 1

(* --------------------------- call bookkeeping -------------------------- *)

\* the positions a per-account callback of startProvider / stopProvider ends in
TerminalPcs ==
  {"skipped", "disabled", "notConfigured", "started", "threw", "noop", "stopped"}

\* the callback of stopProvider for one account: abort and task are the
\* entries read at lines 317-318 (0 is undefined), signal the controller
\* whose signal went to the stopAccount hook (null when no hook was called,
\* 0 for a new controller)
StopFlow(pc, abort, task, signal) ==
  [pc |-> pc, enabled |-> TRUE, promise |-> "none", task |-> task,
   abort |-> abort, signal |-> signal]

\* enabled records whether the configuration the call read enables the account
Flow(pc, enabled, promise, task) ==
  [pc |-> pc, enabled |-> enabled, promise |-> promise, task |-> task]

\* an account is disabled in configuration c: its enabled flag is false, or
\* it is a WhatsApp account and web.enabled is false
DisabledInConfig(c, p, id) ==
  \/ <<p, id>> \in c.disabled
  \/ p = "whatsapp" /\ ~c.web.enabled

\* the promise a call returned (Promise.all over its flows): rejected as soon
\* as one flow threw, resolved when every flow returned
CallStatus(call) ==
  IF \E id \in DOMAIN call.flows : call.flows[id].pc = "threw" THEN "rejected"
  ELSE IF \A id \in DOMAIN call.flows : call.flows[id].pc \in TerminalPcs
       THEN "resolved"
       ELSE "pending"

CallFinished(call) ==
  \A id \in DOMAIN call.flows : call.flows[id].pc \in TerminalPcs

\* listed records the ids the plugin listed for the configuration the call read
NewCall(op, p, listed, flows) ==
  [op |-> op, providerId |-> p, listed |-> listed, flows |-> flows]

\* Call c of the map cs has moved: once every flow of it has returned, its
\* caller has the result and the call is over (the call startProviders awaits
\* stays until the loop takes its result).
CallsAfter(cs, c, awaited) ==
  IF CallFinished(cs[c]) /\ c # awaited THEN MapDelete(cs, c) ELSE cs

ReturnedAfter(cs, c, awaited, last) ==
  IF CallFinished(cs[c]) /\ c # awaited THEN cs[c] ELSE last

(* ----------------------------- startProvider --------------------------- *)

\* mutant: the check of line 233 is missing
StartNeverSkips(stores, p, id) == FALSE

\* line 233: if (store.tasks.has(id)) return
StartSkips(stores, p, id) == MapHas(getStore(stores, p).tasks, id)

\* lines 233-250 for one account id: the flow up to its first await
StartFlowSync(stores, c, p, id) ==
  IF StartSkips(stores, p, id)
  THEN Flow("skipped", ~DisabledInConfig(c, p, id), "none", 0)
  ELSE IF ~AccountEnabled(c, p, id)
       THEN Flow("disabled", ~DisabledInConfig(c, p, id), "none", 0)
       ELSE Flow("isConfigured", ~DisabledInConfig(c, p, id),
                 isConfigured(p, resolveAccount(c, p, id)), 0)

\* lines 238-245: the snapshot write of a disabled account
StartStoreSync(stores, c, p, id) ==
  IF StartSkips(stores, p, id) THEN stores
  ELSE IF ~AccountEnabled(c, p, id)
       THEN setRuntime(stores, p, id,
                       [accountId |-> id, running |-> FALSE,
                        lastError |-> Some("disabled")])
       ELSE stores

RECURSIVE StartStoreAll(_, _, _, _)
\* accountIds.map(async (id) => ...): the synchronous parts, one id after another
StartStoreAll(stores, c, p, ids) ==
  IF ids = {} THEN stores
  ELSE LET id == CHOOSE x \in ids : TRUE
       IN StartStoreAll(StartStoreSync(stores, c, p, id), c, p, ids \ {id})

\* lines 220-250: startProvider(providerId, accountId?) up to the first await
StartCall(stores, c, p, ids) ==
  NewCall("start", p, listAccountIds(c, p),
          [id \in ids |-> StartFlowSync(stores, c, p, id)])

\* the account ids a call covers: the one given, or the plugin's list
CallIds(c, p) ==
  {{id} : id \in listAccountIds(c, p)} \cup {listAccountIds(c, p)}

\* startProvider(p, accountId?) is called while loadConfig() returns c
StartProvider(c, p, ids) ==
  /\ ncalls < MaxCalls
  /\ ncalls' = ncalls + 1
  /\ calls' = CallsAfter(MapSet(calls, ncalls + 1,
                                StartCall(providerStores, c, p, ids)),
                         ncalls + 1, boot.call)
  /\ returned' = ReturnedAfter(MapSet(calls, ncalls + 1,
                                      StartCall(providerStores, c, p, ids)),
                               ncalls + 1, boot.call, returned)
  /\ providerStores' = StartStoreAll(providerStores, c, p, ids)
  /\ UNCHANGED <<conns, ntasks, boot, now>>

\* mutant: the running snapshot keeps the error of the earlier run
StartAccountStoreKeepsError(stores, p, id, t, at) ==
  LET s1 == [stores EXCEPT ![p].aborts = MapSet(@, id, t)]
      s2 == setRuntime(s1, p, id,
                       [accountId |-> id, running |-> TRUE,
                        lastStartAt |-> Some(at)])
  IN [s2 EXCEPT ![p].tasks = MapSet(@, id, t)]

\* lines 261-296: abort controller, running snapshot, startAccount, tracking
StartAccountStore(stores, p, id, t, at) ==
  LET s1 == [stores EXCEPT ![p].aborts = MapSet(@, id, t)]
      s2 == setRuntime(s1, p, id,
                       [accountId |-> id, running |-> TRUE,
                        lastStartAt |-> Some(at), lastError |-> Null])
  IN [s2 EXCEPT ![p].tasks = MapSet(@, id, t)]

\* mutant: the same wording for every plugin
NotConfiguredStoreOneWording(stores, p, id) ==
  setRuntime(stores, p, id,
             [accountId |-> id, running |-> FALSE,
              lastError |-> Some("not configured")])

\* lines 251-259: the snapshot of an account that is not configured
NotConfiguredStore(stores, p, id) ==
  setRuntime(stores, p, id,
             [accountId |-> id, running |-> FALSE,
              lastError |-> Some(IF p = "whatsapp" THEN "not linked"
                                 ELSE "not configured")])

\* flow id of call c returns at position pc
FlowReturns(c, id, pc) ==
  /\ calls' = CallsAfter([calls EXCEPT ![c].flows[id].pc = pc], c, boot.call)
  /\ returned' = ReturnedAfter([calls EXCEPT ![c].flows[id].pc = pc], c,
                               boot.call, returned)

\* lines 249-296: the flow resumes when the isConfigured promise settles
IsConfiguredSettles(c, id, outcome) ==
  /\ c \in DOMAIN calls
  /\ calls[c].op = "start"
  /\ id \in DOMAIN calls[c].flows
  /\ calls[c].flows[id].pc = "isConfigured"
  /\ outcome \in (IF calls[c].flows[id].promise = "pending"
                  THEN IsConfiguredOutcomes
                  ELSE {calls[c].flows[id].promise})
  /\ LET p == calls[c].providerId IN
       CASE outcome = "reject" ->
              /\ FlowReturns(c, id, "threw")
              /\ UNCHANGED <<providerStores, conns, ntasks, now>>
         [] outcome = "false" ->
              /\ FlowReturns(c, id, "notConfigured")
              /\ providerStores' = NotConfiguredStore(providerStores, p, id)
              /\ UNCHANGED <<conns, ntasks, now>>
         [] outcome = "true" ->
              /\ ntasks < MaxTasks
              /\ ntasks' = ntasks + 1
              /\ now' = now + 1
              /\ providerStores' =
                   StartAccountStore(providerStores, p, id, ntasks + 1, now)
              /\ conns' = MapSet(conns, ntasks + 1,
                                 [providerId |-> p, accountId |-> id,
                                  aborted |-> FALSE, state |-> "pending",
                                  err |-> Null, tracked |-> FALSE])
              /\ FlowReturns(c, id, "started")
  /\ UNCHANGED <<ncalls, boot>>

(* --------------------------- connection tasks -------------------------- *)

\* the promise startAccount returned fulfils or rejects; tracked records
\* whether the store's task entry of the account was this task at that time
TaskSettles(t, ok, err) ==
  /\ t \in DOMAIN conns
  /\ conns[t].state = "pending"
  /\ conns' = [conns EXCEPT ![t].state = IF ok THEN "fulfilled" ELSE "rejected",
                            ![t].err = IF ok THEN Null ELSE Some(err),
                            ![t].tracked =
                              MapGet(providerStores[conns[t].providerId].tasks,
                                     conns[t].accountId) = t]
  /\ UNCHANGED <<providerStores, ntasks, calls, ncalls, returned, boot, now>>

\* lines 282-286: .catch of the tracked promise
CatchStore(stores, p, id, err) ==
  setRuntime(stores, p, id,
             [accountId |-> id, lastError |-> Some(formatErrorMessage(err))])

CatchHandler(t) ==
  /\ t \in DOMAIN conns
  /\ conns[t].state = "rejected"
  /\ providerStores' =
       CatchStore(providerStores, conns[t].providerId, conns[t].accountId,
                  CHOOSE e \in conns[t].err : TRUE)
  /\ conns' = [conns EXCEPT ![t].state = "caught"]
  /\ UNCHANGED <<ntasks, calls, ncalls, returned, boot, now>>

\* mutant: the entries are deleted but the snapshot is not written
UntrackOnly(stores, p, id, at) ==
  [stores EXCEPT ![p].aborts = MapDelete(@, id), ![p].tasks = MapDelete(@, id)]

\* lines 339-345 and 288-294: untrack the account and record the stop
UntrackStore(stores, p, id, at) ==
  LET s1 == [stores EXCEPT ![p].aborts = MapDelete(@, id),
                           ![p].tasks = MapDelete(@, id)]
  IN setRuntime(s1, p, id,
                [accountId |-> id, running |-> FALSE, lastStopAt |-> Some(at)])

\* mutant: the .finally handler clears the account id in every plugin's store
FinallyStoreEveryPlugin(stores, p, id, at) ==
  LET s1 == [q \in DOMAIN stores |->
               [stores[q] EXCEPT !.aborts = MapDelete(@, id),
                                 !.tasks = MapDelete(@, id)]]
  IN setRuntime(s1, p, id,
                [accountId |-> id, running |-> FALSE, lastStopAt |-> Some(at)])

\* lines 287-295: .finally of the tracked promise
FinallyStore(stores, p, id, at) == UntrackStore(stores, p, id, at)

FinallyHandler(t) ==
  /\ t \in DOMAIN conns
  /\ conns[t].state \in {"fulfilled", "caught"}
  /\ providerStores' =
       FinallyStore(providerStores, conns[t].providerId, conns[t].accountId, now)
  /\ now' = now + 1
  /\ conns' = MapDelete(conns, t)
  /\ UNCHANGED <<ntasks, calls, ncalls, returned, boot>>

\* what the plugins pass to ctx.setStatus while their task runs; the
\* accountId of the patch is the plugin's choice
StatusPatches(p, id) ==
  IF p = "whatsapp"
  THEN {[accountId |-> id, connected |-> TRUE]}
  ELSE {[accountId |-> a, bot |-> Some("bot")] : a \in {id, "main"}}

\* line 279: setStatus: (next) => setRuntime(providerId, id, next)
SetStatus(t, patch) ==
  /\ t \in DOMAIN conns
  /\ conns[t].state = "pending"
  /\ patch \in StatusPatches(conns[t].providerId, conns[t].accountId)
  /\ providerStores' =
       setRuntime(providerStores, conns[t].providerId, conns[t].accountId, patch)
  /\ providerStores' # providerStores
  /\ UNCHANGED <<conns, ntasks, calls, ncalls, returned, boot, now>>

(* ----------------------------- stopProvider ---------------------------- *)

\* mutant: the ids the configuration lists, without the tracked ones
knownIdsListed(stores, c, p) == listAccountIds(c, p)

\* lines 305-313: the ids stopProvider(providerId, accountId?) covers
knownIds(stores, c, p) ==
  DOMAIN getStore(stores, p).aborts \cup DOMAIN getStore(stores, p).tasks
    \cup listAccountIds(c, p)

\* lines 317-335 for one account id: the flow up to its first await, which
\* is await plugin.gateway.stopAccount(...) when the plugin declares the hook
\* and await task otherwise
StopFlowSync(stores, p, id) ==
  LET abort == MapGet(getStore(stores, p).aborts, id)
      task == MapGet(getStore(stores, p).tasks, id)
  IN IF abort = 0 /\ task = 0 /\ p \notin hooks
     THEN StopFlow("noop", 0, 0, Null)
     ELSE IF p \in hooks
          THEN StopFlow("stopAccount", abort, task, Some(abort))
          ELSE StopFlow("awaitTask", abort, task, Null)

\* line 320: abort?.abort() on the controllers of the ids
AbortAll(cs, stores, p, ids) ==
  [t \in DOMAIN cs |->
     IF \E id \in ids : MapGet(getStore(stores, p).aborts, id) = t
     THEN [cs[t] EXCEPT !.aborted = TRUE]
     ELSE cs[t]]

StopCall(stores, c, p, ids) ==
  NewCall("stop", p, listAccountIds(c, p),
          [id \in ids |-> StopFlowSync(stores, p, id)])

StopIds(stores, c, p) ==
  {{id} : id \in listAccountIds(c, p)} \cup {knownIds(stores, c, p)}

\* stopProvider(p, accountId?) is called while loadConfig() returns c
StopProvider(c, p, ids) ==
  /\ ncalls < MaxCalls
  /\ ncalls' = ncalls + 1
  /\ calls' = CallsAfter(MapSet(calls, ncalls + 1,
                                StopCall(providerStores, c, p, ids)),
                         ncalls + 1, boot.call)
  /\ returned' = ReturnedAfter(MapSet(calls, ncalls + 1,
                                      StopCall(providerStores, c, p, ids)),
                               ncalls + 1, boot.call, returned)
  /\ conns' = AbortAll(conns, providerStores, p, ids)
  /\ UNCHANGED <<providerStores, ntasks, boot, now>>

\* lines 321-333: the promise of the stopAccount hook settles. Fulfilled:
\* the flow goes on to await task. Rejected: the flow throws.
StopAccountSettles(c, id, ok) ==
  /\ c \in DOMAIN calls
  /\ calls[c].op = "stop"
  /\ id \in DOMAIN calls[c].flows
  /\ calls[c].flows[id].pc = "stopAccount"
  /\ IF ok
     THEN /\ calls' = [calls EXCEPT ![c].flows[id].pc = "awaitTask"]
          /\ UNCHANGED returned
     ELSE FlowReturns(c, id, "threw")
  /\ UNCHANGED <<providerStores, conns, ntasks, ncalls, boot, now>>

\* mutant: the flow goes on without awaiting the task
TrackedNotAwaited(cs, t) == TRUE

\* the tracked promise of task t has settled: t is through its .finally
\* (the tracked promise never rejects: .catch handles the task's rejection)
TrackedSettled(cs, t) == t = 0 \/ t \notin DOMAIN cs

\* lines 339-345: after await task
StopStore(stores, p, id, at) == UntrackStore(stores, p, id, at)

\* lines 334-346: the flow resumes after await task
StopResumes(c, id) ==
  /\ c \in DOMAIN calls
  /\ calls[c].op = "stop"
  /\ id \in DOMAIN calls[c].flows
  /\ calls[c].flows[id].pc = "awaitTask"
  /\ TrackedSettled(conns, calls[c].flows[id].task)
  /\ providerStores' = StopStore(providerStores, calls[c].providerId, id, now)
  /\ now' = now + 1
  /\ FlowReturns(c, id, "stopped")
  /\ UNCHANGED <<conns, ntasks, ncalls, boot>>

(* ----------------------------- startProviders -------------------------- *)

\* lines 350-354: for (const plugin of listProviderPlugins())
\*                  await startProvider(plugin.id)
\* the loop calls startProvider for plugin i while loadConfig() returns c
BootStart(c, i) ==
  /\ ncalls < MaxCalls
  /\ ncalls' = ncalls + 1
  /\ calls' = MapSet(IF boot.call = 0 THEN calls ELSE MapDelete(calls, boot.call),
                     ncalls + 1,
                     StartCall(providerStores, c, listProviderPlugins[i],
                               listAccountIds(c, listProviderPlugins[i])))
  /\ providerStores' =
       StartStoreAll(providerStores, c, listProviderPlugins[i],
                     listAccountIds(c, listProviderPlugins[i]))
  /\ boot' = [pc |-> "await", index |-> i, call |-> ncalls + 1]

StartProviders(c) ==
  /\ boot.pc = "idle"
  /\ BootStart(c, 1)
  /\ UNCHANGED <<conns, ntasks, returned, now>>

\* the awaited startProvider resolved: the loop goes on to the next plugin
StartProvidersNext(c) ==
  /\ boot.pc = "await"
  /\ CallStatus(calls[boot.call]) = "resolved"
  /\ IF boot.index < Len(listProviderPlugins)
     THEN BootStart(c, boot.index + 1)
     ELSE /\ calls' = MapDelete(calls, boot.call)
          /\ boot' = [boot EXCEPT !.pc = "done", !.call = 0]
          /\ UNCHANGED <<providerStores, ncalls>>
  /\ returned' = calls[boot.call]
  /\ UNCHANGED <<conns, ntasks, now>>

\* the awaited startProvider rejected: the await throws out of the loop
StartProvidersThrows ==
  /\ boot.pc = "await"
  /\ CallStatus(calls[boot.call]) = "rejected"
  /\ boot' = [boot EXCEPT !.pc = "rejected", !.call = 0]
  /\ calls' = CallsAfter(calls, boot.call, 0)
  /\ returned' = ReturnedAfter(calls, boot.call, 0, returned)
  /\ UNCHANGED <<providerStores, conns, ntasks, ncalls, now>>

(* ------------------------- markWhatsAppLoggedOut ----------------------- *)

\* lines 356-366
LoggedOutStore(stores, cleared, id) ==
  setRuntime(stores, "whatsapp", id,
             [accountId |-> id, running |-> FALSE, connected |-> FALSE,
              lastError |-> IF cleared THEN Some("logged out")
                            ELSE Field(getRuntime(stores, "whatsapp", id),
                                       "lastError")])

markWhatsAppLoggedOut(cleared, id) ==
  /\ providerStores' = LoggedOutStore(providerStores, cleared, id)
  /\ providerStores' # providerStores
  /\ UNCHANGED <<conns, ntasks, calls, ncalls, returned, boot, now>>

(* --------------------------- getRuntimeSnapshot ------------------------ *)

\* a ??= v
NullishAssign(a, v) == IF a = Null THEN v ELSE a

\* lines 379-394: the snapshot reported for account id of plugin p
AccountSnapshot(stores, c, p, id) ==
  LET enabled == AccountEnabled(c, p, id)
      configured == describeConfigured(p, resolveAccount(c, p, id))
      current == IF MapHas(getStore(stores, p).runtimes, id)
                 THEN getStore(stores, p).runtimes[id]
                 ELSE cloneDefaultRuntime(p, id)
      next == Spread(current, [accountId |-> id])
  IN IF ~Running(next)
     THEN IF ~enabled
          THEN Spread(next, [lastError |->
                 NullishAssign(Field(next, "lastError"), Some("disabled"))])
          ELSE IF configured = FALSE
               THEN Spread(next, [lastError |->
                      NullishAssign(Field(next, "lastError"),
                                    Some("not configured"))])
               ELSE next
     ELSE next

\* lines 368-402: [p].accounts is the `${p}Accounts` entry, [p].default the
\* entry of the default account id
getRuntimeSnapshot(stores, c) ==
  [p \in ProviderIds |->
     LET accounts == [id \in listAccountIds(c, p) |->
                        AccountSnapshot(stores, c, p, id)]
         defaultAccountId == DEFAULT_ACCOUNT_ID
     IN [accounts |-> accounts,
         default |-> IF defaultAccountId \in DOMAIN accounts
                     THEN accounts[defaultAccountId]
                     ELSE cloneDefaultRuntime(p, defaultAccountId)]]

(* --------------------------- gateway run loop -------------------------- *)
(* runGatewayLoop of src/src/cli/gateway-cli.ts. Signal handlers and timers *)
(* run as separate event-loop tasks; the continuation of an await runs in   *)
(* the task that settled the awaited promise, before any other signal or    *)
(* timer, so a settlement and the continuation it resumes are one action.   *)

VARIABLES
  server,          \* the loop's server: 0 is null, n the server start n gave
  shuttingDown,    \* the flag of line 294
  restartResolver, \* 0 is null, n the resolver of the promise made after start n
  forceExitTimer,  \* TRUE while the timer of line 314 is pending
  loopPc,          \* "start": awaiting params.start(); "wait": awaiting the
                   \* restart promise; "explain": params.start() rejected
                   \* and the command awaits the service check of line
                   \* 584; "failed": the command has called exit(1)
  reported,        \* the command has logged "Gateway failed to start: ..."
  shutdown,        \* the async block of lines 320-339: [pc, isRestart, server]
  exitCode,        \* Null while the process runs, else the code it exited with
  signalsOn,       \* the three signal handlers are registered
  nstarts,         \* params.start() calls so far
  nsignals,        \* signals delivered so far
  nignored,        \* signals request() ignored (line 304-307)
  stopRequested,   \* a SIGTERM or SIGINT has been delivered
  open             \* servers started and not closed

loopVars ==
  <<server, shuttingDown, restartResolver, forceExitTimer, loopPc, reported,
    shutdown, exitCode, signalsOn, nstarts, nsignals, nignored, stopRequested,
    open>>

GatewayRunSignalAction == {"stop", "restart"}

NoShutdown == [pc |-> "none", isRestart |-> FALSE, server |-> 0]

\* lines 293-295 and 345-354: the handlers are registered and the loop has
\* called params.start() for the first time
LoopInit ==
  /\ server = 0
  /\ shuttingDown = FALSE
  /\ restartResolver = 0
  /\ forceExitTimer = FALSE
  /\ loopPc = "start"
  /\ reported = FALSE
  /\ shutdown = NoShutdown
  /\ exitCode = Null
  /\ signalsOn = TRUE
  /\ nstarts = 1
  /\ nsignals = 0
  /\ nignored = 0
  /\ stopRequested = FALSE
  /\ open = {}

\* what the promise of params.start() settles to: a server, or a rejection
\* with a GatewayLockError or with another error
StartOutcomes == {"server", "GatewayLockError", "Error"}

\* mutant: the loop leaves its handlers registered when it ends
cleanupSignalsSkipped == TRUE

\* lines 297-301: cleanupSignals() leaves no handler of the loop registered
cleanupSignals == FALSE

\* lines 354-360 and 573-589: params.start() settles. Resolved: the loop
\* stores the server and waits on a new restart promise. Rejected: the
\* finally of line 360 removes the handlers, the loop rejects and the
\* command's catch block logs the failure; for a GatewayLockError it awaits
\* maybeExplainGatewayServiceStop() before exit(1), else it calls exit(1).
StartSettles(outcome) ==
  /\ exitCode = Null
  /\ loopPc = "start"
  /\ IF outcome = "server"
     THEN /\ server' = nstarts
          /\ open' = open \cup {nstarts}
          /\ restartResolver' = nstarts
          /\ loopPc' = "wait"
          /\ UNCHANGED <<exitCode, signalsOn, reported>>
     ELSE /\ signalsOn' = cleanupSignals
          /\ reported' = TRUE
          /\ IF outcome = "GatewayLockError"
             THEN loopPc' = "explain" /\ UNCHANGED exitCode
             ELSE loopPc' = "failed" /\ exitCode' = Some(1)
          /\ UNCHANGED <<server, open, restartResolver>>
  /\ UNCHANGED <<shuttingDown, forceExitTimer, shutdown, nstarts, nsignals,
                 nignored, stopRequested>>

\* lines 584-586 and 125-142: the service check settles (its rejection is
\* caught at line 130) and the command calls exit(1)
ExplainSettles ==
  /\ exitCode = Null
  /\ loopPc = "explain"
  /\ loopPc' = "failed"
  /\ exitCode' = Some(1)
  /\ UNCHANGED <<server, shuttingDown, restartResolver, forceExitTimer,
                 reported, shutdown, signalsOn, nstarts, nsignals, nignored,
                 stopRequested, open>>

\* mutant: request() goes on while a shutdown is in progress
NeverIgnored(flag) == FALSE

\* line 304: request() returns at once while shutting down
Ignored(flag) == flag

\* mutant: no forced-exit timer is set
ForceExitTimerNotSet == FALSE

\* lines 314-318: request() sets the forced-exit timer
ForceExitTimerSet == TRUE

\* mutant: the finally block leaves the timer pending
clearTimeoutSkipped == TRUE

\* line 330: clearTimeout(forceExitTimer) leaves no timer pending
clearTimeout == FALSE

\* mutant: the finally block keeps the server it closed
serverKept == server

\* line 331: server = null
serverReset == 0

\* lines 303-340: a signal arrives and its handler calls request(action).
\* With no server, await server?.close() awaits undefined and the finally
\* block runs in the same task; with a server, close() is called and the
\* block is suspended until it settles.
Request(action) ==
  /\ exitCode = Null
  /\ signalsOn
  /\ nsignals < MaxSignals
  /\ action = "restart" => nstarts < MaxStarts
  /\ nsignals' = nsignals + 1
  /\ stopRequested' = (stopRequested \/ action = "stop")
  /\ IF Ignored(shuttingDown)
     THEN /\ nignored' = nignored + 1
          /\ UNCHANGED <<server, shuttingDown, restartResolver, forceExitTimer,
                         loopPc, reported, shutdown, exitCode, signalsOn,
                         nstarts, open>>
     ELSE /\ UNCHANGED <<nignored, restartResolver, loopPc, reported, nstarts,
                         open>>
          /\ IF server = 0
             THEN /\ forceExitTimer' = clearTimeout
                  /\ server' = serverReset
                  /\ shutdown' = NoShutdown
                  /\ IF action = "restart"
                     THEN /\ shuttingDown' = FALSE
                          /\ UNCHANGED <<exitCode, signalsOn>>
                     ELSE /\ shuttingDown' = TRUE
                          /\ signalsOn' = FALSE
                          /\ exitCode' = Some(0)
             ELSE /\ shuttingDown' = TRUE
                  /\ forceExitTimer' = ForceExitTimerSet
                  /\ shutdown' = [pc |-> "closing",
                                  isRestart |-> (action = "restart"),
                                  server |-> server]
                  /\ UNCHANGED <<server, exitCode, signalsOn>>

\* lines 321-338: server.close() settles and the block resumes: catch (when
\* it rejected) and finally. On a restart the resolver wakes the loop, which
\* calls params.start() again (line 354).
CloseSettles(ok) ==
  /\ exitCode = Null
  /\ shutdown.pc = "closing"
  /\ open' = IF ok THEN open \ {shutdown.server} ELSE open
  /\ forceExitTimer' = clearTimeout
  /\ server' = serverReset
  /\ shutdown' = [shutdown EXCEPT !.pc = "done"]
  /\ IF shutdown.isRestart
     THEN /\ shuttingDown' = FALSE
          /\ IF restartResolver # 0 /\ loopPc = "wait"
             THEN loopPc' = "start" /\ nstarts' = nstarts + 1
             ELSE UNCHANGED <<loopPc, nstarts>>
          /\ UNCHANGED <<exitCode, signalsOn>>
     ELSE /\ signalsOn' = FALSE
          /\ exitCode' = Some(0)
          /\ UNCHANGED <<shuttingDown, loopPc, nstarts>>
  /\ UNCHANGED <<restartResolver, reported, nsignals, nignored, stopRequested>>

\* lines 314-318: the forced-exit timer fires
TimerFires ==
  /\ exitCode = Null
  /\ forceExitTimer
  /\ forceExitTimer' = FALSE
  /\ signalsOn' = FALSE
  /\ exitCode' = Some(0)
  /\ UNCHANGED <<server, shuttingDown, restartResolver, loopPc, reported,
                 shutdown, nstarts, nsignals, nignored, stopRequested, open>>

(* ------------------------- outbound delivery --------------------------- *)
(* deliverOutboundPayloads of src/src/infra/outbound/deliver.ts, one call.  *)
(* A text is a sequence of characters; "" is the empty sequence.            *)

VARIABLES
  params,          \* the call's parameters: [provider, limit, bestEffort,
                   \* onError, payloads]; limit is what resolveTextChunkLimit
                   \* returns, onError whether the callback is supplied,
                   \* payloads the normalized payloads
  results,         \* the results array: the sends whose result was pushed
  sent,            \* the handler.sendText / handler.sendMedia calls made, in
                   \* call order: [kind, text, mediaUrl, payload]
  inflight,        \* the sends whose promise has not settled
  rejected,        \* the sends whose promise rejected
  deliverPc,       \* where the function is suspended: [payload, item, send]
  onErrorCalls,    \* the payloads params.onError was called with, in order
  status          \* "idle", "running", "returned" or "threw"

deliveryVars ==
  <<params, results, sent, inflight, rejected, deliverPc, onErrorCalls,
    status>>

Texts == {<<>>, <<"a", "b", "c">>}

MediaLists == {<<>>, <<"u1">>, <<"u1", "u2">>}

\* the chunk limits resolveTextChunkLimit returns
Limits == {1, 2}

NormalizedOutboundPayload == [text : Texts, mediaUrls : MediaLists]

PayloadLists ==
  UNION {[1..n -> NormalizedOutboundPayload] : n \in 0..MaxPayloads}

DeliverParams ==
  [provider : ProviderIds, limit : Limits, bestEffort : BOOLEAN,
   onError : BOOLEAN, payloads : PayloadLists]

NoParams ==
  [provider |-> "discord", limit |-> 1, bestEffort |-> FALSE,
   onError |-> FALSE, payloads |-> <<>>]

NoPc == [payload |-> 0, item |-> 0, send |-> 0]

\* no delivery is made
DeliverIdle ==
  /\ params = NoParams
  /\ results = <<>>
  /\ sent = <<>>
  /\ inflight = {}
  /\ rejected = {}
  /\ deliverPc = NoPc
  /\ onErrorCalls = <<>>
  /\ status = "idle"

\* a caller is about to call deliverOutboundPayloads(params)
DeliverInit ==
  /\ params \in DeliverParams
  /\ results = <<>>
  /\ sent = <<>>
  /\ inflight = {}
  /\ rejected = {}
  /\ deliverPc = NoPc
  /\ onErrorCalls = <<>>
  /\ status = "idle"

\* chunkText(text, limit): pieces of at most limit characters, in order
RECURSIVE chunkText(_, _)
chunkText(text, limit) ==
  IF text = <<>> THEN <<>>
  ELSE IF Len(text) <= limit THEN <<text>>
  ELSE <<SubSeq(text, 1, limit)>>
         \o chunkText(SubSeq(text, limit + 1, Len(text)), limit)

\* lines 52-63 and 282-285: the chunker of each provider
providerCaps == [whatsapp |-> "chunkText", discord |-> "null"]

\* lines 347-349: undefined when the handler has no chunker
textLimit(prm) ==
  IF providerCaps[prm.provider] # "null" THEN Some(prm.limit) ELSE Null

TextSend(text) == [kind |-> "text", text |-> text, mediaUrl |-> Null]

\* mutant: the text is never split
sendTextWhole(prm, text) == <<TextSend(text)>>

\* lines 351-359: the sendText calls sendTextChunks makes for a text
sendTextChunks(prm, text) ==
  IF providerCaps[prm.provider] = "null" \/ textLimit(prm) = Null
  THEN <<TextSend(text)>>
  ELSE LET chunks == chunkText(text, prm.limit)
       IN [k \in 1..Len(chunks) |-> TextSend(chunks[k])]

\* mutant: every media item carries the text as its caption
CaptionEvery(text, k) == text

\* lines 370-373: the caption of the k-th media item
Caption(text, k) == IF k = 1 THEN text ELSE <<>>

\* lines 365-375: the sends one payload asks for, in order
PayloadSends(prm, payload) ==
  IF Len(payload.mediaUrls) = 0
  THEN sendTextChunks(prm, payload.text)
  ELSE [k \in 1..Len(payload.mediaUrls) |->
          [kind |-> "media", text |-> Caption(payload.text, k),
           mediaUrl |-> Some(payload.mediaUrls[k])]]

\* the first payload from index i on that asks for a send; 0 when none does
NextWork(prm, i) ==
  LET js == {j \in i..Len(prm.payloads) :
               PayloadSends(prm, prm.payloads[j]) # <<>>}
  IN IF js = {} THEN 0 ELSE CHOOSE j \in js : \A k \in js : j <= k

\* the call of send k of payload j
IssueSend(prm, j, k) ==
  /\ sent' = Append(sent, [kind |-> PayloadSends(prm, prm.payloads[j])[k].kind,
                           text |-> PayloadSends(prm, prm.payloads[j])[k].text,
                           mediaUrl |->
                             PayloadSends(prm, prm.payloads[j])[k].mediaUrl,
                           payload |-> j])
  /\ inflight' = inflight \cup {Len(sent) + 1}
  /\ deliverPc' = [payload |-> j, item |-> k, send |-> Len(sent) + 1]

\* lines 362-381: the loop runs from payload i to its next await, or returns
\* the results when no payload is left
LoopFrom(prm, i) ==
  IF NextWork(prm, i) = 0
  THEN /\ status' = "returned"
       /\ deliverPc' = NoPc
       /\ UNCHANGED <<sent, inflight>>
  ELSE /\ status' = "running"
       /\ IssueSend(prm, NextWork(prm, i), 1)

\* lines 310-381: the call, up to its first await
Deliver ==
  /\ status = "idle"
  /\ LoopFrom(params, 1)
  /\ UNCHANGED <<params, results, rejected, onErrorCalls>>

\* the promise of a send settles
SendSettles(ok) ==
  /\ \E id \in inflight :
       /\ inflight' = inflight \ {id}
       /\ rejected' = IF ok THEN rejected ELSE rejected \cup {id}
  /\ UNCHANGED <<params, results, sent, deliverPc, onErrorCalls, status>>

\* mutant: the function goes on without awaiting the send
NotAwaited(id) == TRUE

\* await: the function resumes once the send's promise has settled
Awaited(id) == id \notin inflight

\* mutant: the catch block rethrows also in best-effort mode
NeverBestEffort(prm) == FALSE

\* mutant: the catch block never rethrows
AlwaysBestEffort(prm) == TRUE

\* line 377: if (!params.bestEffort) throw err
BestEffort(prm) == prm.bestEffort

\* mutant: after a failed send the loop goes on with the rest of the payload
AfterFailureSamePayload(prm, pc) ==
  IF pc.item < Len(PayloadSends(prm, prm.payloads[pc.payload]))
  THEN IssueSend(prm, pc.payload, pc.item + 1) /\ UNCHANGED status
  ELSE LoopFrom(prm, pc.payload + 1)

\* lines 376-379: the catch block ends the iteration of the payload whose
\* send failed; the for loop goes on with the next payload
AfterFailure(prm, pc) == LoopFrom(prm, pc.payload + 1)

\* lines 353-379: the function resumes after a send. Rejected: the catch
\* block rethrows, or calls onError (when supplied) and goes to the next
\* payload. Fulfilled: the result is pushed and the next send of the payload
\* or the next payload follows.
Resume ==
  /\ status = "running"
  /\ Awaited(deliverPc.send)
  /\ IF deliverPc.send \in rejected
     THEN IF ~BestEffort(params)
          THEN /\ status' = "threw"
               /\ UNCHANGED <<results, sent, inflight, deliverPc, onErrorCalls>>
          ELSE /\ onErrorCalls' =
                    IF params.onError
                    THEN Append(onErrorCalls, deliverPc.payload)
                    ELSE onErrorCalls
               /\ AfterFailure(params, deliverPc)
               /\ UNCHANGED results
     ELSE /\ results' = Append(results, deliverPc.send)
          /\ UNCHANGED onErrorCalls
          /\ IF deliverPc.item <
                  Len(PayloadSends(params, params.payloads[deliverPc.payload]))
             THEN /\ IssueSend(params, deliverPc.payload, deliverPc.item + 1)
                  /\ UNCHANGED status
             ELSE LoopFrom(params, deliverPc.payload + 1)
  /\ UNCHANGED <<params, rejected>>

(* --------------------------- outbound targets -------------------------- *)
(* resolveOutboundTarget of src/unnamed/part_001 and the resolveTarget of   *)
(* each plugin. A destination is a sequence of characters; " " stands for   *)
(* white space, "1" for a digit, "x" for any other character.               *)

VARIABLES
  target,          \* the parameters of one resolveOutboundTarget call:
                   \* [provider, to, allowFrom]; to and allowFrom are null
                   \* when absent
  resolution       \* null, or what the call returned

targetVars == <<target, resolution>>

Chars == {" ", "+", "1", "x"}

Strings == UNION {[1..n -> Chars] : n \in 0..MaxLen}

\* the provider values resolveOutboundTarget accepts (lines 30-38)
OutboundProviders ==
  {"whatsapp", "telegram", "discord", "slack", "signal", "imessage",
   "msteams", "webchat"}

\* the value of a field that is not null
Value(o) == CHOOSE v \in o : TRUE

\* String.prototype.trim()
RECURSIVE trimStart(_)
trimStart(str) ==
  IF str # <<>> /\ Head(str) = " " THEN trimStart(Tail(str)) ELSE str

RECURSIVE trimEnd(_)
trimEnd(str) ==
  IF str # <<>> /\ str[Len(str)] = " "
  THEN trimEnd(SubSeq(str, 1, Len(str) - 1))
  ELSE str

trim(str) == trimEnd(trimStart(str))

\* to?.trim(): undefined when to is absent
OptTrim(to) == IF to = Null THEN Null ELSE Some(trim(Value(to)))

\* a string read as a condition: undefined and "" are falsy
Truthy(o) == o # Null /\ Value(o) # <<>>

\* allowFrom?.[0]?.trim()
Fallback(allowFrom) ==
  IF allowFrom = Null \/ Value(allowFrom) = <<>>
  THEN Null
  ELSE Some(trim(Value(allowFrom)[1]))

\* normalizeE164(number): what is neither a digit nor "+" is dropped and the
\* result starts with one "+"
normalizeE164(number) ==
  LET digits == SelectSeq(trim(number), LAMBDA ch : ch \in {"+", "1"})
  IN IF digits # <<>> /\ Head(digits) = "+" THEN digits ELSE <<"+">> \o digits

\* an error message is the sequence of its parts
Resolved(to) == [ok |-> TRUE, to |-> to]

Failed(message) == [ok |-> FALSE, error |-> message]

\* the error message of an empty destination, per provider
Requires ==
  [whatsapp |-> <<"Delivering to WhatsApp requires --to ", "<E.164>",
                  " or whatsapp.allowFrom[0]">>,
   telegram |-> <<"Delivering to Telegram requires --to ", "<chatId>">>,
   discord |-> <<"Delivering to Discord requires --to ",
                 "<channelId|user:ID|channel:ID>">>,
   slack |-> <<"Delivering to Slack requires --to ",
               "<channelId|user:ID|channel:ID>">>,
   signal |-> <<"Delivering to Signal requires --to ",
                "<E.164|group:ID|signal:group:ID|signal:+E.164>">>,
   imessage |-> <<"Delivering to iMessage requires --to ",
                  "<handle|chat_id:ID>">>,
   msteams |-> <<"Delivering to MS Teams requires --to ",
                 "<conversationId|user:ID|conversation:ID>">>]

WebChatUnsupported ==
  <<"Delivering to WebChat is not supported via ", "clawdbot agent",
    "; use WhatsApp/Telegram or run with --deliver=false.">>

\* the body the resolveTarget of six plugins shares: const trimmed =
\* to?.trim(); if (!trimmed) return { ok: false, error }; return { ok: true,
\* to: trimmed }
RequireTo(to, message) ==
  IF ~Truthy(OptTrim(to)) THEN Failed(message) ELSE Resolved(Value(OptTrim(to)))

\* mutant: the fallback entry is returned as it is listed, only trimmed
whatsappResolveTargetRawFallback(to, allowFrom) ==
  IF Truthy(OptTrim(to)) THEN Resolved(normalizeE164(Value(OptTrim(to))))
  ELSE IF Truthy(Fallback(allowFrom))
       THEN Resolved(Value(Fallback(allowFrom)))
       ELSE Failed(Requires.whatsapp)

\* whatsappPlugin.outbound.resolveTarget
whatsappResolveTarget(to, allowFrom) ==
  IF Truthy(OptTrim(to)) THEN Resolved(normalizeE164(Value(OptTrim(to))))
  ELSE IF Truthy(Fallback(allowFrom))
       THEN Resolved(normalizeE164(Value(Fallback(allowFrom))))
       ELSE Failed(Requires.whatsapp)

telegramResolveTarget(to) == RequireTo(to, Requires.telegram)

\* mutant: the Discord plugin returns the destination as it was given
discordResolveTargetRaw(to) ==
  IF ~Truthy(OptTrim(to)) THEN Failed(Requires.discord) ELSE Resolved(Value(to))

discordResolveTarget(to) == RequireTo(to, Requires.discord)

\* mutant: the error of the Slack plugin does not say what --to takes
slackResolveTargetBare(to) ==
  RequireTo(to, <<"Delivering to Slack requires --to ">>)

slackResolveTarget(to) == RequireTo(to, Requires.slack)

signalResolveTarget(to) == RequireTo(to, Requires.signal)

imessageResolveTarget(to) == RequireTo(to, Requires.imessage)

msteamsResolveTarget(to) == RequireTo(to, Requires.msteams)

\* the plugins that declare outbound.resolveTarget: all seven
Resolvers ==
  {"whatsapp", "telegram", "discord", "slack", "signal", "imessage",
   "msteams"}

\* plugin.outbound.resolveTarget({ cfg, to, allowFrom })
resolver(provider, to, allowFrom) ==
  CASE provider = "whatsapp" -> whatsappResolveTarget(to, allowFrom)
    [] provider = "telegram" -> telegramResolveTarget(to)
    [] provider = "discord" -> discordResolveTarget(to)
    [] provider = "slack" -> slackResolveTarget(to)
    [] provider = "signal" -> signalResolveTarget(to)
    [] provider = "imessage" -> imessageResolveTarget(to)
    [] provider = "msteams" -> msteamsResolveTarget(to)

\* lines 55-140: the resolution of a provider without a resolver
Unresolved(provider, to, allowFrom) ==
  LET trimmed == IF Truthy(OptTrim(to)) THEN Value(OptTrim(to)) ELSE <<>>
      required == [q \in DOMAIN Requires \ {"whatsapp"} |-> Requires[q]]
  IN IF provider = "whatsapp"
     THEN IF trimmed # <<>> THEN Resolved(normalizeE164(trimmed))
          ELSE IF Truthy(Fallback(allowFrom))
               THEN Resolved(Value(Fallback(allowFrom)))
               ELSE Failed(Requires.whatsapp)
     ELSE IF provider \in DOMAIN required
          THEN IF trimmed = <<>> THEN Failed(required[provider])
               ELSE Resolved(trimmed)
          ELSE Failed(WebChatUnsupported)

\* lines 29-141
resolveOutboundTarget(provider, to, allowFrom) ==
  IF provider # "webchat" /\ provider \in Resolvers
  THEN resolver(provider, to, allowFrom)
  ELSE Unresolved(provider, to, allowFrom)

Destinations == {Null} \cup {Some(str) : str \in Strings}

AllowLists ==
  {Null, Some(<<>>), Some(<<<<" ">>>>), Some(<<<<"1">>, <<"x">>>>)}

Targets ==
  [provider : OutboundProviders, to : Destinations, allowFrom : AllowLists]

NoTarget == [provider |-> "webchat", to |-> Null, allowFrom |-> Null]

\* no resolution is asked for
TargetIdle ==
  /\ target = NoTarget
  /\ resolution = Null

\* a caller is about to call resolveOutboundTarget(target)
TargetInit ==
  /\ target \in Targets
  /\ resolution = Null

\* the call: it reads its parameters and returns
ResolveTarget ==
  /\ resolution = Null
  /\ resolution' =
       Some(resolveOutboundTarget(target.provider, target.to, target.allowFrom))
  /\ UNCHANGED target

(* ------------------------------ sendMessage ---------------------------- *)
(* sendMessage of src/src/infra/outbound/message.ts, one call.              *)

VARIABLES
  message,         \* the call's parameters: [provider, to, content,
                   \* mediaUrl, dryRun, bestEffort]; provider is what
                   \* normalizeMessageProvider gave
  gatewayCalls,    \* the callGateway calls made, in order: [method, provider, to]
  gatewayPending,  \* whether a callGateway promise has not settled
  sendPc,          \* "idle", "gateway", "direct", "returned" or "threw"
  sendResult       \* null, or what the caller received: a result or an error

messageVars == <<message, gatewayCalls, gatewayPending, sendPc, sendResult>>

\* an id no plugin is registered under
UnknownProvider == "none"

Contents == {<<"a">>, <<"a", "b", "c">>}

Messages ==
  [provider : ProviderIds \cup {UnknownProvider},
   to : {<<>>, <<" ">>, <<"x", "1">>},
   content : Contents,
   mediaUrl : {Null, Some("u1")},
   dryRun : BOOLEAN,
   bestEffort : BOOLEAN]

NoMessage ==
  [provider |-> UnknownProvider, to |-> <<>>, content |-> <<"a">>,
   mediaUrl |-> Null, dryRun |-> TRUE, bestEffort |-> FALSE]

\* no message is sent
MessageIdle ==
  /\ message = NoMessage
  /\ gatewayCalls = <<>>
  /\ gatewayPending = FALSE
  /\ sendPc = "idle"
  /\ sendResult = Null

\* a caller is about to call sendMessage(message)
MessageInit ==
  /\ message \in Messages
  /\ gatewayCalls = <<>>
  /\ gatewayPending = FALSE
  /\ sendPc = "idle"
  /\ sendResult = Null

\* getProviderPlugin(id): whether a plugin is registered under the id
getProviderPlugin(id) == id \in ProviderIds

\* mutant: every plugin delivers directly
deliveryModeDirect(provider) == "direct"

\* lines 104-106: plugin.outbound.deliveryMode of the registered plugins
deliveryMode(provider) ==
  IF provider = "whatsapp" THEN "gateway" ELSE "direct"

\* mutant: a failed resolution is not looked at
TargetAccepted(resolvedTarget) == FALSE

\* line 128: if (!resolvedTarget.ok) throw resolvedTarget.error
TargetRejected(resolvedTarget) == ~resolvedTarget.ok

\* line 135: payloads: [{ text: params.content, mediaUrl: params.mediaUrl }]
\* in the normalized shape
MessagePayloads(msg) ==
  <<[text |-> msg.content,
     mediaUrls |-> IF msg.mediaUrl = Null THEN <<>>
                   ELSE <<Value(msg.mediaUrl)>>]>>

Thrown(err) == [error |-> err]

Returned(via, dry) == [via |-> via, dryRun |-> dry]

\* lines 95-167: the call, up to its first await; limit is what
\* resolveTextChunkLimit returns for the configuration
SendMessage(limit) ==
  /\ sendPc = "idle"
  /\ IF ~getProviderPlugin(message.provider)
     THEN /\ sendPc' = "threw"
          /\ sendResult' = Some(Thrown(<<"Unknown provider: ", message.provider>>))
          /\ UNCHANGED <<gatewayCalls, gatewayPending, deliveryVars>>
     ELSE IF message.dryRun
     THEN /\ sendPc' = "returned"
          /\ sendResult' = Some(Returned(deliveryMode(message.provider), TRUE))
          /\ UNCHANGED <<gatewayCalls, gatewayPending, deliveryVars>>
     ELSE IF deliveryMode(message.provider) # "gateway"
     THEN IF TargetRejected(
               resolveOutboundTarget(message.provider, Some(message.to), Null))
          THEN /\ sendPc' = "threw"
               /\ sendResult' =
                    Some(Thrown(resolveOutboundTarget(
                                  message.provider, Some(message.to), Null).error))
               /\ UNCHANGED <<gatewayCalls, gatewayPending, deliveryVars>>
          ELSE /\ sendPc' = "direct"
               /\ params' = [provider |-> message.provider, limit |-> limit,
                             bestEffort |-> message.bestEffort,
                             onError |-> FALSE,
                             payloads |-> MessagePayloads(message)]
               /\ LoopFrom([provider |-> message.provider, limit |-> limit,
                            bestEffort |-> message.bestEffort,
                            onError |-> FALSE,
                            payloads |-> MessagePayloads(message)], 1)
               /\ UNCHANGED <<results, rejected, onErrorCalls, sendResult,
                              gatewayCalls, gatewayPending>>
     ELSE /\ sendPc' = "gateway"
          /\ gatewayCalls' =
               Append(gatewayCalls, [method |-> "send",
                                     provider |-> message.provider,
                                     to |-> message.to])
          /\ gatewayPending' = TRUE
          /\ UNCHANGED <<sendResult, deliveryVars>>
  /\ UNCHANGED message

GatewayError == <<"gateway call failed">>

\* lines 151-175: the callGateway promise settles and the call resumes
GatewaySettles(ok) ==
  /\ sendPc = "gateway"
  /\ gatewayPending
  /\ gatewayPending' = FALSE
  /\ sendPc' = IF ok THEN "returned" ELSE "threw"
  /\ sendResult' =
       IF ok THEN Some(Returned("gateway", FALSE)) ELSE Some(Thrown(GatewayError))
  /\ UNCHANGED <<message, gatewayCalls>>

DeliveryError == <<"send failed">>

\* lines 130-147: deliverOutboundPayloads has settled and the call resumes
DeliverySettles ==
  /\ sendPc = "direct"
  /\ status \in {"returned", "threw"}
  /\ sendPc' = status
  /\ sendResult' =
       IF status = "returned" THEN Some(Returned("direct", FALSE))
       ELSE Some(Thrown(DeliveryError))
  /\ UNCHANGED <<message, gatewayCalls, gatewayPending>>

(* --------------------------- heartbeat target -------------------------- *)
(* resolveHeartbeatDeliveryTarget of src/unnamed/part_001, one call. "*"    *)
(* is the wildcard entry of an allow list.                                  *)

VARIABLES
  heartbeat,       \* the parameters of the call: [target, to, allowFrom,
                   \* entry]: cfg.agents.defaults.heartbeat.target and .to,
                   \* cfg.whatsapp.allowFrom, and the session entry
                   \* [lastProvider, lastTo]; each is null when absent
  heartbeatTarget  \* null, or the OutboundTarget the call returned:
                   \* [provider, to, reason]

heartbeatVars == <<heartbeat, heartbeatTarget>>

\* values of heartbeat.target: a provider, "none", "last", another string
RawTargets ==
  {Null, Some("whatsapp"), Some("telegram"), Some("none"), Some("last"),
   Some("sms")}

HeartbeatTos == {Null, Some(<<" ">>), Some(<<"+", "1">>), Some(<<"x">>)}

SessionEntries ==
  {Null} \cup
  {Some([lastProvider |-> lp, lastTo |-> lt]) :
     lp \in {Null, Some("whatsapp"), Some("telegram"), Some("webchat")},
     lt \in {Null, Some(<<>>), Some(<<"1", "1">>)}}

HeartbeatAllowLists ==
  {Null, Some(<<>>), Some(<<<<"*">>>>), Some(<<<<"x">>>>), Some(<<<<"1">>>>),
   Some(<<<<"+", "1", "1">>, <<"1">>>>), Some(<<<<"1">>, <<"*">>>>)}

HeartbeatParams ==
  [target : RawTargets, to : HeartbeatTos, allowFrom : HeartbeatAllowLists,
   entry : SessionEntries]

NoHeartbeat ==
  [target |-> Null, to |-> Null, allowFrom |-> Null, entry |-> Null]

\* no heartbeat target is asked for
HeartbeatIdle ==
  /\ heartbeat = NoHeartbeat
  /\ heartbeatTarget = Null

\* a caller is about to call resolveHeartbeatDeliveryTarget(heartbeat)
HeartbeatInit ==
  /\ heartbeat \in HeartbeatParams
  /\ heartbeatTarget = Null

OutboundTarget(provider, to, reason) ==
  [provider |-> provider, to |-> to, reason |-> reason]

\* lines 223-225: rawAllow.map(normalizeE164).filter((val) => val.length > 1)
normalizedAllowFrom(rawAllow) ==
  SelectSeq([k \in DOMAIN rawAllow |-> normalizeE164(rawAllow[k])],
            LAMBDA val : Len(val) > 1)

\* mutant: a destination that is not listed is returned all the same
allowedTargetAny(rawAllow, to) == OutboundTarget("whatsapp", Some(to), Null)

\* lines 222-228: the WhatsApp destination checked against the allow list
allowedTarget(rawAllow, to) ==
  IF \E k \in DOMAIN rawAllow : rawAllow[k] = <<"*">>
  THEN OutboundTarget("whatsapp", Some(to), Null)
  ELSE IF normalizedAllowFrom(rawAllow) = <<>>
       THEN OutboundTarget("whatsapp", Some(to), Null)
       ELSE IF \E k \in DOMAIN normalizedAllowFrom(rawAllow) :
                 normalizedAllowFrom(rawAllow)[k] = to
            THEN OutboundTarget("whatsapp", Some(to), Null)
            ELSE OutboundTarget("whatsapp",
                                Some(normalizedAllowFrom(rawAllow)[1]),
                                Some("allowFrom-fallback"))

\* lines 143-229
resolveHeartbeatDeliveryTarget(cfg) ==
  LET wanted == IF cfg.target # Null /\
                   Value(cfg.target) \in
                     (OutboundProviders \ {"webchat"}) \cup {"none", "last"}
                THEN Value(cfg.target) ELSE "last"
      explicitTo == IF Truthy(OptTrim(cfg.to)) THEN OptTrim(cfg.to) ELSE Null
      lastProvider ==
        IF cfg.entry # Null /\ Value(cfg.entry).lastProvider # Null
                            /\ Value(cfg.entry).lastProvider # Some("webchat")
        THEN Value(cfg.entry).lastProvider ELSE Null
      lastTo == IF cfg.entry # Null /\ Value(cfg.entry).lastTo # Null
                THEN trim(Value(Value(cfg.entry).lastTo)) ELSE <<>>
      provider == IF wanted = "last" THEN lastProvider
                  ELSE IF wanted \in OutboundProviders \ {"webchat"}
                       THEN Some(wanted) ELSE Null
      to == IF Truthy(explicitTo) THEN explicitTo
            ELSE IF provider # Null /\ lastProvider = provider /\ lastTo # <<>>
                 THEN Some(lastTo)
                 ELSE IF wanted = "last" THEN Some(lastTo) ELSE Null
      rawAllow == IF cfg.allowFrom = Null THEN <<>> ELSE Value(cfg.allowFrom)
  IN IF wanted = "none"
     THEN OutboundTarget("none", Null, Some("target-none"))
     ELSE IF provider = Null \/ ~Truthy(to)
          THEN OutboundTarget("none", Null, Some("no-target"))
          ELSE IF provider # Some("whatsapp")
               THEN IF resolveOutboundTarget(Value(provider), to, Null).ok
                    THEN OutboundTarget(
                           Value(provider),
                           Some(resolveOutboundTarget(Value(provider), to,
                                                      Null).to),
                           Null)
                    ELSE OutboundTarget("none", Null, Some("no-target"))
               ELSE IF ~resolveOutboundTarget("whatsapp", to,
                                              Some(rawAllow)).ok
                    THEN OutboundTarget("none", Null, Some("no-target"))
                    ELSE allowedTarget(
                           rawAllow,
                           resolveOutboundTarget("whatsapp", to,
                                                 Some(rawAllow)).to)

\* the call: it reads its parameters and returns
ResolveHeartbeat ==
  /\ heartbeatTarget = Null
  /\ heartbeatTarget' = Some(resolveHeartbeatDeliveryTarget(heartbeat))
  /\ UNCHANGED heartbeat

(* ---------------------------- providers.status ------------------------- *)
(* The providers.status handler of src/src/gateway/server-providers.ts,     *)
(* one request. The handler is suspended at each await: isConfigured, the   *)
(* plugin's probeAccount and auditAccount, buildProviderAccountSnapshot and *)
(* webAuthExists.                                                           *)

VARIABLES
  statusParams,    \* the request: [valid, probe, timeoutMs, cfg]; valid is
                   \* what validateProvidersStatusParams returns, probe and
                   \* timeoutMs are null when absent, cfg what loadConfig()
                   \* returns
  statusPc,        \* where the handler is: [index, stage], index the plugin
                   \* buildProviderAccounts is working on
  invocations      \* the probeAccount / auditAccount calls made, in order:
                   \* [hook, providerId, accountId, timeoutMs]

statusVars == <<statusParams, statusPc, invocations>>

StatusParams ==
  [valid : BOOLEAN, probe : {Null, Some(TRUE), Some(FALSE)},
   timeoutMs : {Null, Some(500), Some(5000)}, cfg : Configs]

NoStatusParams ==
  [valid |-> FALSE, probe |-> Null, timeoutMs |-> Null,
   cfg |-> [accounts |-> Accounts, disabled |-> {}, web |-> [enabled |-> TRUE],
            discordToken |-> FALSE]]

StatusPc(index, stage) == [index |-> index, stage |-> stage]

\* no request is handled
StatusIdle ==
  /\ statusParams = NoStatusParams
  /\ statusPc = StatusPc(0, "idle")
  /\ invocations = <<>>

\* a providers.status request has arrived
StatusInit ==
  /\ statusParams \in StatusParams
  /\ statusPc = StatusPc(0, "idle")
  /\ invocations = <<>>

\* line 482: probe = params.probe === true
probeRequested(prm) == prm.probe = Some(TRUE)

\* mutant: the default timeout is passed whatever the caller supplied
timeoutMsDefault(prm) == 10000

\* lines 483-485: Math.max(1000, timeoutMsRaw) for a number, else 10_000
timeoutMs(prm) ==
  IF prm.timeoutMs # Null
  THEN IF Value(prm.timeoutMs) > 1000 THEN Value(prm.timeoutMs) ELSE 1000
  ELSE 10000

\* plugin.status of the registered plugins: the hooks each declares
statusHooks ==
  [whatsapp |-> {}, discord |-> {"probeAccount", "auditAccount"}]

\* lines 532-536: enabled, as buildProviderAccounts computes it
statusEnabled(prm, p, id) ==
  resolveAccount(prm.cfg, p, id).enabled # FALSE

\* lines 538 and 553: the condition under which a hook is considered
HookWanted(prm, p, id, hook) ==
  probeRequested(prm) /\ statusEnabled(prm, p, id) /\ hook \in statusHooks[p]

RECURSIVE Enter(_, _, _)
\* lines 530-598 and 600-650: the handler runs from stage `stage` of the
\* account of plugin `index` to its next await. The stages of an account:
\* "probe" (line 538), "audit" (line 553), "snapshot" (line 571); after the
\* last plugin the handler awaits webAuthExists (line 647).
Enter(prm, index, stage) ==
  IF index > Len(listProviderPlugins) THEN StatusPc(index, "webAuthExists")
  ELSE IF listAccountIds(prm.cfg, listProviderPlugins[index]) = {}
       THEN Enter(prm, index + 1, "probe")
       ELSE IF stage = "probe"
            THEN IF HookWanted(prm, listProviderPlugins[index],
                               DEFAULT_ACCOUNT_ID, "probeAccount")
                 THEN StatusPc(index, "probeConfigured")
                 ELSE Enter(prm, index, "audit")
            ELSE IF stage = "audit"
                 THEN IF HookWanted(prm, listProviderPlugins[index],
                                    DEFAULT_ACCOUNT_ID, "auditAccount")
                      THEN StatusPc(index, "auditConfigured")
                      ELSE StatusPc(index, "snapshot")
                 ELSE StatusPc(index, "snapshot")

\* lines 470-529: the handler is called; an invalid request is answered
\* with an error, a valid one runs to its first await
ProvidersStatus ==
  /\ statusPc.stage = "idle"
  /\ statusPc' = IF statusParams.valid THEN Enter(statusParams, 1, "probe")
                 ELSE StatusPc(0, "invalid")
  /\ UNCHANGED <<statusParams, invocations>>

\* lines 539-550 and 554-566: await plugin.config.isConfigured settles.
\* true: the hook is called with timeoutMs. false: the hook is skipped.
\* reject: the handler throws.
StatusConfiguredSettles(outcome) ==
  /\ statusPc.stage \in {"probeConfigured", "auditConfigured"}
  /\ LET p == listProviderPlugins[statusPc.index]
         promise == isConfigured(p, resolveAccount(statusParams.cfg, p,
                                                   DEFAULT_ACCOUNT_ID))
         hook == IF statusPc.stage = "probeConfigured" THEN "probeAccount"
                 ELSE "auditAccount"
     IN /\ outcome \in (IF promise = "pending" THEN IsConfiguredOutcomes
                        ELSE {promise})
        /\ CASE outcome = "reject" ->
                  /\ statusPc' = StatusPc(statusPc.index, "threw")
                  /\ UNCHANGED invocations
             [] outcome = "false" ->
                  /\ statusPc' =
                       IF hook = "probeAccount"
                       THEN Enter(statusParams, statusPc.index, "audit")
                       ELSE StatusPc(statusPc.index, "snapshot")
                  /\ UNCHANGED invocations
             [] outcome = "true" ->
                  /\ statusPc' = StatusPc(statusPc.index, hook)
                  /\ invocations' =
                       Append(invocations,
                              [hook |-> hook, providerId |-> p,
                               accountId |-> DEFAULT_ACCOUNT_ID,
                               timeoutMs |-> timeoutMs(statusParams)])
  /\ UNCHANGED statusParams

\* lines 544-549 and 559-565: the promise of the hook settles
HookSettles(ok) ==
  /\ statusPc.stage \in {"probeAccount", "auditAccount"}
  /\ statusPc' =
       IF ~ok THEN StatusPc(statusPc.index, "threw")
       ELSE IF statusPc.stage = "probeAccount"
            THEN Enter(statusParams, statusPc.index, "audit")
            ELSE StatusPc(statusPc.index, "snapshot")
  /\ UNCHANGED <<statusParams, invocations>>

\* lines 571-598: buildProviderAccountSnapshot settles and the next plugin
\* follows
SnapshotSettles ==
  /\ statusPc.stage = "snapshot"
  /\ statusPc' = Enter(statusParams, statusPc.index + 1, "probe")
  /\ UNCHANGED <<statusParams, invocations>>

\* lines 643-662: the link check of the WhatsApp account settles and the
\* handler responds
WebAuthSettles ==
  /\ statusPc.stage = "webAuthExists"
  /\ statusPc' = StatusPc(statusPc.index, "responded")
  /\ UNCHANGED <<statusParams, invocations>>

(* ----------------------------- specification --------------------------- *)

Next ==
  \/ \E c \in Configs : \E p \in ProviderIds : \E ids \in CallIds(c, p) :
       StartProvider(c, p, ids)
       /\ UNCHANGED <<heartbeatVars, statusVars, loopVars, deliveryVars, targetVars, messageVars, hooks>>
  \/ \E c \in DOMAIN calls : \E id \in DOMAIN calls[c].flows :
       \E outcome \in IsConfiguredOutcomes : IsConfiguredSettles(c, id, outcome)
       /\ UNCHANGED <<heartbeatVars, statusVars, loopVars, deliveryVars, targetVars, messageVars, hooks>>
  \/ \E t \in DOMAIN conns : \E ok \in BOOLEAN : \E err \in Errors :
       TaskSettles(t, ok, err)
       /\ UNCHANGED <<heartbeatVars, statusVars, loopVars, deliveryVars, targetVars, messageVars, hooks>>
  \/ \E t \in DOMAIN conns : CatchHandler(t)
       /\ UNCHANGED <<heartbeatVars, statusVars, loopVars, deliveryVars, targetVars, messageVars, hooks>>
  \/ \E t \in DOMAIN conns : FinallyHandler(t)
       /\ UNCHANGED <<heartbeatVars, statusVars, loopVars, deliveryVars, targetVars, messageVars, hooks>>
  \/ \E t \in DOMAIN conns :
       \E patch \in StatusPatches(conns[t].providerId, conns[t].accountId) :
         SetStatus(t, patch)
       /\ UNCHANGED <<heartbeatVars, statusVars, loopVars, deliveryVars, targetVars, messageVars, hooks>>
  \/ \E c \in Configs : \E p \in ProviderIds :
       \E ids \in StopIds(providerStores, c, p) : StopProvider(c, p, ids)
       /\ UNCHANGED <<heartbeatVars, statusVars, loopVars, deliveryVars, targetVars, messageVars, hooks>>
  \/ \E c \in DOMAIN calls : \E id \in DOMAIN calls[c].flows : StopResumes(c, id)
       /\ UNCHANGED <<heartbeatVars, statusVars, loopVars, deliveryVars, targetVars, messageVars, hooks>>
  \/ \E c \in Configs : StartProviders(c)
       /\ UNCHANGED <<heartbeatVars, statusVars, loopVars, deliveryVars, targetVars, messageVars, hooks>>
  \/ \E c \in Configs : StartProvidersNext(c)
       /\ UNCHANGED <<heartbeatVars, statusVars, loopVars, deliveryVars, targetVars, messageVars, hooks>>
  \/ StartProvidersThrows
       /\ UNCHANGED <<heartbeatVars, statusVars, loopVars, deliveryVars, targetVars, messageVars, hooks>>
  \/ \E cleared \in BOOLEAN : \E id \in Accounts.whatsapp :
       markWhatsAppLoggedOut(cleared, id)
       /\ UNCHANGED <<heartbeatVars, statusVars, loopVars, deliveryVars, targetVars, messageVars, hooks>>

allVars ==
  <<vars, hooks, loopVars, deliveryVars, targetVars, messageVars,
    heartbeatVars, statusVars>>

\* the provider manager alone
\* the manager is constructed; the run loop has begun; no delivery, target
\* resolution or message is under way
Start ==
  Init /\ NoHooks /\ LoopInit /\ DeliverIdle /\ TargetIdle /\ MessageIdle
  /\ HeartbeatIdle /\ StatusIdle

Spec == Start /\ [][Next]_allVars

GatewayNext ==
  \/ \E outcome \in StartOutcomes :
       StartSettles(outcome) /\ UNCHANGED <<vars, hooks, statusVars, heartbeatVars, deliveryVars, targetVars, messageVars>>
  \/ ExplainSettles /\ UNCHANGED <<vars, hooks, statusVars, heartbeatVars, deliveryVars, targetVars, messageVars>>
  \/ \E action \in GatewayRunSignalAction : Request(action) /\ UNCHANGED <<vars, hooks, statusVars, heartbeatVars, deliveryVars, targetVars, messageVars>>
  \/ \E ok \in BOOLEAN : CloseSettles(ok) /\ UNCHANGED <<vars, hooks, statusVars, heartbeatVars, deliveryVars, targetVars, messageVars>>
  \/ TimerFires /\ UNCHANGED <<vars, hooks, statusVars, heartbeatVars, deliveryVars, targetVars, messageVars>>

\* the gateway run loop alone; the event loop runs a timer that is due
GatewayLoop ==
  /\ Start
  /\ [][GatewayNext]_allVars
  /\ WF_allVars(TimerFires /\ UNCHANGED <<vars, hooks, statusVars, heartbeatVars, deliveryVars, targetVars, messageVars>>)

DeliveryNext ==
  \/ Deliver /\ UNCHANGED <<vars, hooks, statusVars, heartbeatVars, loopVars, targetVars, messageVars>>
  \/ \E ok \in BOOLEAN : SendSettles(ok) /\ UNCHANGED <<vars, hooks, statusVars, heartbeatVars, loopVars, targetVars, messageVars>>
  \/ Resume /\ UNCHANGED <<vars, hooks, statusVars, heartbeatVars, loopVars, targetVars, messageVars>>

\* one deliverOutboundPayloads call, for every choice of its parameters
DeliveryStart ==
  Init /\ NoHooks /\ LoopInit /\ DeliverInit /\ TargetIdle /\ MessageIdle
  /\ HeartbeatIdle /\ StatusIdle

Delivery == DeliveryStart /\ [][DeliveryNext]_allVars

ResolutionNext ==
  ResolveTarget /\ UNCHANGED <<vars, hooks, statusVars, heartbeatVars, loopVars, deliveryVars, messageVars>>

\* one resolveOutboundTarget call, for every choice of its parameters
ResolutionStart ==
  Init /\ NoHooks /\ LoopInit /\ DeliverIdle /\ TargetInit /\ MessageIdle
  /\ HeartbeatIdle /\ StatusIdle

Resolution == ResolutionStart /\ [][ResolutionNext]_allVars

MessagingNext ==
  \/ \E limit \in Limits :
       SendMessage(limit) /\ UNCHANGED <<vars, hooks, statusVars, heartbeatVars, loopVars, targetVars>>
  \/ \E ok \in BOOLEAN :
       GatewaySettles(ok) /\ UNCHANGED <<vars, hooks, statusVars, heartbeatVars, loopVars, deliveryVars, targetVars>>
  \/ \E ok \in BOOLEAN :
       SendSettles(ok) /\ UNCHANGED <<vars, hooks, statusVars, heartbeatVars, loopVars, targetVars, messageVars>>
  \/ Resume /\ UNCHANGED <<vars, hooks, statusVars, heartbeatVars, loopVars, targetVars, messageVars>>
  \/ DeliverySettles /\ UNCHANGED <<vars, hooks, statusVars, heartbeatVars, loopVars, deliveryVars, targetVars>>

\* one sendMessage call, for every choice of its parameters
MessagingStart ==
  Init /\ NoHooks /\ LoopInit /\ DeliverIdle /\ TargetIdle /\ MessageInit
  /\ HeartbeatIdle /\ StatusIdle

Messaging == MessagingStart /\ [][MessagingNext]_allVars

HookedNext ==
  \/ Next
  \/ \E c \in DOMAIN calls : \E id \in DOMAIN calls[c].flows : \E ok \in BOOLEAN :
       StopAccountSettles(c, id, ok)
       /\ UNCHANGED <<heartbeatVars, statusVars, loopVars, deliveryVars, targetVars, messageVars, hooks>>

\* the provider manager with plugins that declare gateway.stopAccount
HookedStart ==
  Init /\ AllHooks /\ LoopInit /\ DeliverIdle /\ TargetIdle /\ MessageIdle
  /\ HeartbeatIdle /\ StatusIdle

Hooked == HookedStart /\ [][HookedNext]_allVars

HeartbeatNext ==
  ResolveHeartbeat
  /\ UNCHANGED <<vars, hooks, statusVars, loopVars, deliveryVars, targetVars, messageVars>>

\* one resolveHeartbeatDeliveryTarget call, for every choice of its parameters
HeartbeatStart ==
  Init /\ NoHooks /\ LoopInit /\ DeliverIdle /\ TargetIdle /\ MessageIdle
  /\ HeartbeatInit /\ StatusIdle

Heartbeat == HeartbeatStart /\ [][HeartbeatNext]_allVars

StatusNext ==
  \/ ProvidersStatus
       /\ UNCHANGED <<vars, hooks, heartbeatVars, loopVars, deliveryVars, targetVars, messageVars>>
  \/ \E outcome \in IsConfiguredOutcomes :
       StatusConfiguredSettles(outcome)
       /\ UNCHANGED <<vars, hooks, heartbeatVars, loopVars, deliveryVars, targetVars, messageVars>>
  \/ \E ok \in BOOLEAN :
       HookSettles(ok)
       /\ UNCHANGED <<vars, hooks, heartbeatVars, loopVars, deliveryVars, targetVars, messageVars>>
  \/ SnapshotSettles
       /\ UNCHANGED <<vars, hooks, heartbeatVars, loopVars, deliveryVars, targetVars, messageVars>>
  \/ WebAuthSettles
       /\ UNCHANGED <<vars, hooks, heartbeatVars, loopVars, deliveryVars, targetVars, messageVars>>

\* one providers.status request, for every choice of its parameters
StatusStart ==
  Init /\ NoHooks /\ LoopInit /\ DeliverIdle /\ TargetIdle /\ MessageIdle
  /\ HeartbeatIdle /\ StatusInit

Status == StatusStart /\ [][StatusNext]_allVars

(* ------------------------ reading the state --------------------------- *)

Tracked(p, id) == MapHas(providerStores[p].tasks, id)

HasAbort(p, id) == MapHas(providerStores[p].aborts, id)

Snapshot(p, id) == getRuntime(providerStores, p, id)

\* the connection tasks of an account that are not through their .finally
LiveTasks(p, id) ==
  {t \in DOMAIN conns : conns[t].providerId = p /\ conns[t].accountId = id}

\* the call issued last, in the state right after it was issued
IssuedCall == IF ncalls \in DOMAIN calls THEN calls[ncalls] ELSE returned

\* what the store holds for one account
Entry(p, id) ==
  [abort |-> MapGet(providerStores[p].aborts, id),
   task |-> MapGet(providerStores[p].tasks, id),
   runtime |-> IF MapHas(providerStores[p].runtimes, id)
               THEN Some(providerStores[p].runtimes[id]) ELSE Null]

\* this step issues a startProvider call of plugin p that covers account id
StartIssued(p, id) ==
  /\ ncalls' = ncalls + 1
  /\ IssuedCall'.op = "start"
  /\ IssuedCall'.providerId = p
  /\ id \in DOMAIN IssuedCall'.flows

\* this step issues a stopProvider call of plugin p that covers account id
StopIssued(p, id) ==
  /\ ncalls' = ncalls + 1
  /\ IssuedCall'.op = "stop"
  /\ IssuedCall'.providerId = p
  /\ id \in DOMAIN IssuedCall'.flows

\* the position of flow id of call c, also after the call has just returned
FlowPc(c, id) ==
  IF c \in DOMAIN calls THEN calls[c].flows[id].pc ELSE returned.flows[id].pc

\* this step resumes the stopProvider flow of account id of plugin p that was
\* suspended in await task
StopResumed(c, p, id) ==
  /\ c \in DOMAIN calls
  /\ calls[c].op = "stop"
  /\ calls[c].providerId = p
  /\ id \in DOMAIN calls[c].flows
  /\ calls[c].flows[id].pc = "awaitTask"
  /\ FlowPc(c, id)' # "awaitTask"

\* the account has been started at some time
StartedOnce(p, id) == Field(Snapshot(p, id), "lastStartAt") # Null

\* the account is stopped and nothing is tracked for it
StoppedAndCleared(p, id) ==
  /\ ~Running(Snapshot(p, id))
  /\ Field(Snapshot(p, id), "lastStopAt") # Null
  /\ ~Tracked(p, id)
  /\ ~HasAbort(p, id)

(* ------------------------------- claims -------------------------------- *)

\* C1: a startProvider call for an account that already has a task registered
\* is a no-op for that account: its callback returns at once (so it never
\* reaches gateway.startAccount), no task is started, and the account's task,
\* cancellation handle and snapshot (lastStartAt included) stay as they were.
C1_IdempotentStart ==
  [][\A p \in ProviderIds : \A id \in Accounts[p] :
       (StartIssued(p, id) /\ Tracked(p, id)) =>
         /\ IssuedCall'.flows[id].pc = "skipped"
         /\ Entry(p, id)' = Entry(p, id)
         /\ ntasks' = ntasks
         /\ conns' = conns]_vars

\* C1 witness: a second start of a running account has returned as skipped
\* while the one task started for it is still live and registered
C1_Witness ==
  /\ returned.op = "start"
  /\ \E id \in DOMAIN returned.flows :
       /\ returned.flows[id].pc = "skipped"
       /\ returned.flows[id].enabled
       /\ ntasks = 1
       /\ Tracked(returned.providerId, id)
       /\ LiveTasks(returned.providerId, id) = {1}
       /\ conns[1].state = "pending"
       /\ ~conns[1].aborted
       /\ Running(Snapshot(returned.providerId, id))

\* C2: whenever a stopProvider callback for an account that was started
\* returns, it returns normally (it did not throw) and the account then has
\* running=false, lastStopAt set and no entry in the task map or in the
\* cancellation-handle map, whether the awaited task fulfilled or rejected.
C2_StopClears ==
  [][\A p \in ProviderIds : \A id \in Accounts[p] :
       /\ (StopIssued(p, id) /\ StartedOnce(p, id)
             /\ IssuedCall'.flows[id].pc # "awaitTask") =>
            (IssuedCall'.flows[id].pc = "noop" /\ StoppedAndCleared(p, id)')
       /\ \A c \in DOMAIN calls :
            (StopResumed(c, p, id) /\ StartedOnce(p, id)) =>
              (FlowPc(c, id)' = "stopped" /\ StoppedAndCleared(p, id)')]_vars

\* C2 witness: a stop that awaited the account's only task has returned after
\* that task rejected; the account is stopped and cleared
C2_Witness ==
  /\ returned.op = "stop"
  /\ \E id \in DOMAIN returned.flows :
       /\ returned.flows[id].pc = "stopped"
       /\ returned.flows[id].task = 1
       /\ ntasks = 1
       /\ Field(Snapshot(returned.providerId, id), "lastError")
            = Some("connection lost")
       /\ StoppedAndCleared(returned.providerId, id)

\* C3: an account whose stored snapshot has running=false has no task
\* registered for it in the store.
C3_NotRunningNoTask ==
  \A p \in ProviderIds : \A id \in Accounts[p] :
    ~Running(Snapshot(p, id)) => ~Tracked(p, id)

\* the account is in a state a sequential run of start and stop calls leaves:
\* running with its one live task and that task's handle tracked, or stopped
\* with nothing tracked and no task alive
Serialized(p, id) ==
  \/ /\ Running(Snapshot(p, id))
     /\ Tracked(p, id) /\ HasAbort(p, id)
     /\ providerStores[p].aborts[id] = providerStores[p].tasks[id]
     /\ LiveTasks(p, id) = {providerStores[p].tasks[id]}
  \/ /\ ~Running(Snapshot(p, id))
     /\ ~Tracked(p, id) /\ ~HasAbort(p, id)
     /\ LiveTasks(p, id) = {}

\* C4: a stopProvider callback that completes while no other call is pending
\* leaves the account, if it was in a sequential state before, in a
\* sequential state again: a start that ran concurrently with the stop either
\* took effect whole (running, its task tracked) or not at all.
C4_StartStopSerialize ==
  [][\A p \in ProviderIds : \A id \in Accounts[p] : \A c \in DOMAIN calls :
       (StopResumed(c, p, id) /\ Serialized(p, id) /\ calls' = EmptyMap) =>
         Serialized(p, id)']_vars

\* C5 as claimed: a startProvider call for an account disabled in
\* configuration starts nothing and leaves the snapshot recorded as
\* running=false with lastError="disabled".
C5_DisabledRecorded ==
  [][\A p \in ProviderIds : \A id \in Accounts[p] :
       (StartIssued(p, id) /\ ~IssuedCall'.flows[id].enabled) =>
         /\ IssuedCall'.flows[id].pc \in {"skipped", "disabled"}
         /\ ntasks' = ntasks /\ conns' = conns
         /\ Entry(p, id)'.task = Entry(p, id).task
         /\ Entry(p, id)'.abort = Entry(p, id).abort
         /\ ~Running(Snapshot(p, id))'
         /\ Field(Snapshot(p, id), "lastError")' = Some("disabled")]_vars

\* C5 amended: a startProvider call for an account disabled in configuration
\* never starts it: the callback returns at once, gateway.startAccount is not
\* invoked and no task or cancellation handle is registered by the call. If no
\* task is registered for the account the snapshot is recorded as
\* running=false with lastError="disabled"; if a task is already registered
\* the call is a no-op and the snapshot stays as it was.
C5_DisabledNeverStarted ==
  [][\A p \in ProviderIds : \A id \in Accounts[p] :
       (StartIssued(p, id) /\ ~IssuedCall'.flows[id].enabled) =>
         /\ ntasks' = ntasks /\ conns' = conns
         /\ Entry(p, id)'.task = Entry(p, id).task
         /\ Entry(p, id)'.abort = Entry(p, id).abort
         /\ Running(Snapshot(p, id))' => Running(Snapshot(p, id))
         /\ IF Tracked(p, id)
            THEN /\ IssuedCall'.flows[id].pc = "skipped"
                 /\ Entry(p, id)' = Entry(p, id)
            ELSE /\ IssuedCall'.flows[id].pc = "disabled"
                 /\ ~Running(Snapshot(p, id))'
                 /\ Field(Snapshot(p, id), "lastError")' = Some("disabled")]_vars

\* C5 witness: a start of a WhatsApp account while web.enabled was false has
\* returned as disabled, and so has not started it
C5_Witness ==
  /\ returned.op = "start"
  /\ returned.providerId = "whatsapp"
  /\ \E id \in DOMAIN returned.flows :
       /\ returned.flows[id].pc = "disabled"
       /\ ~returned.flows[id].enabled
       /\ ~Tracked("whatsapp", id)
       /\ ~Running(Snapshot("whatsapp", id))
       /\ Field(Snapshot("whatsapp", id), "lastError") = Some("disabled")

\* C6 as claimed, for the states in which the account is not running:
\* whatever configuration is in force, getRuntimeSnapshot() reports
\* lastError="disabled" for every account that configuration disables.
C6_DisabledReported ==
  \A c \in Configs : \A p \in ProviderIds : \A id \in listAccountIds(c, p) :
    (DisabledInConfig(c, p, id) /\ ~Running(Snapshot(p, id))) =>
      Field(getRuntimeSnapshot(providerStores, c)[p].accounts[id], "lastError")
        = Some("disabled")

\* this step runs the .finally handler of connection task t
Finalized(t) == t \in DOMAIN conns /\ t \notin DOMAIN conns'

\* C7 as claimed: once a task that was tracked when it settled is through its
\* .finally handler, the account has no task entry and no cancellation handle,
\* its snapshot has running=false and lastStopAt set to the time of the
\* handler, and if the task rejected lastError is non-null.
C7_SettlementRecorded ==
  [][\A t \in DOMAIN conns : \A p \in ProviderIds : \A id \in Accounts[p] :
       (/\ Finalized(t) /\ conns[t].tracked
        /\ conns[t].providerId = p /\ conns[t].accountId = id) =>
         /\ ~Tracked(p, id)'
         /\ ~HasAbort(p, id)'
         /\ ~Running(Snapshot(p, id))'
         /\ Field(Snapshot(p, id), "lastStopAt")' = Some(now)
         /\ conns[t].err # Null =>
              Field(Snapshot(p, id), "lastError")' # Null]_vars

\* this step is the settlement of connection task t or one of its handlers
SettlementStep(t) ==
  /\ t \in DOMAIN conns
  /\ \/ Finalized(t)
     \/ t \in DOMAIN conns' /\ conns'[t].state # conns[t].state

StartCalls ==
  {calls[c] : c \in {d \in DOMAIN calls : calls[d].op = "start"}}
    \cup (IF returned # NoCall /\ returned.op = "start" THEN {returned} ELSE {})

\* C9 as claimed: the promise startProvider returned never rejects.
C9_StartNeverRejects ==
  \A call \in StartCalls : CallStatus(call) # "rejected"

\* C10 as claimed: when startProviders() is over, whether it returned or
\* threw, startProvider has been called for every registered plugin.
C10_EveryProviderAttempted ==
  boot.pc \in {"done", "rejected"} => boot.index = Len(listProviderPlugins)

\* this step resumes the startProvider flow of account id of plugin p with
\* isConfigured having returned false
NotConfiguredResumed(c, p, id) ==
  /\ c \in DOMAIN calls
  /\ calls[c].op = "start"
  /\ calls[c].providerId = p
  /\ id \in DOMAIN calls[c].flows
  /\ calls[c].flows[id].pc = "isConfigured"
  /\ FlowPc(c, id)' = "notConfigured"

\* C11: when isConfigured returns false for an account the call found
\* enabled, startProvider records running=false with lastError "not
\* configured" ("not linked" for WhatsApp), does not invoke
\* gateway.startAccount and registers no task or cancellation handle.
C11_NotConfiguredRecorded ==
  [][\A c \in DOMAIN calls : \A p \in ProviderIds : \A id \in Accounts[p] :
       NotConfiguredResumed(c, p, id) =>
         /\ calls[c].flows[id].enabled
         /\ ~Running(Snapshot(p, id))'
         /\ Field(Snapshot(p, id), "lastError")' =
              Some(IF p = "whatsapp" THEN "not linked" ELSE "not configured")
         /\ ntasks' = ntasks /\ conns' = conns
         /\ Entry(p, id)'.task = Entry(p, id).task
         /\ Entry(p, id)'.abort = Entry(p, id).abort]_vars

\* C11 witness: a start of a WhatsApp account whose credentials are missing
\* has returned with "not linked" recorded and nothing registered
C11_Witness ==
  /\ returned.op = "start"
  /\ returned.providerId = "whatsapp"
  /\ \E id \in DOMAIN returned.flows :
       /\ returned.flows[id].pc = "notConfigured"
       /\ returned.flows[id].enabled
       /\ ~Running(Snapshot("whatsapp", id))
       /\ Field(Snapshot("whatsapp", id), "lastError") = Some("not linked")
       /\ ~Tracked("whatsapp", id) /\ ~HasAbort("whatsapp", id)
       /\ ntasks = 0

\* a stop is in progress: server.close() was called for it and has not
\* settled, and the process runs
StopInProgress ==
  shutdown.pc = "closing" /\ ~shutdown.isRestart /\ exitCode = Null

\* this step delivers a stop signal that request() acts on
StopAccepted ==
  /\ nsignals' = nsignals + 1
  /\ ~shuttingDown
  /\ shuttingDown'
  /\ ~shutdown'.isRestart

\* C12: a stop signal received while not shutting down always leads to
\* process exit. The signal either exits at once (no server to close) or
\* leaves close() in progress with the forced-exit timer pending; while the
\* stop is in progress the next thing that happens to it, close() settling
\* (resolved or rejected) or the timer firing, exits with code 0; and a stop
\* in progress is always followed by the exit, even if close() never settles.
C12_StopLeadsToExit ==
  /\ [][StopAccepted =>
          \/ exitCode' = Some(0)
          \/ forceExitTimer' /\ shutdown'.pc = "closing"]_allVars
  /\ [][(StopInProgress /\
           (shutdown' # shutdown \/ forceExitTimer' # forceExitTimer)) =>
          exitCode' = Some(0)]_allVars
  /\ (StopInProgress ~> exitCode = Some(0))

\* C12 witness: the process has exited through the timer while the close of
\* the server is still pending
C12_Witness ==
  /\ exitCode = Some(0)
  /\ shutdown.pc = "closing"
  /\ ~shutdown.isRestart
  /\ shutdown.server \in open
  /\ nignored = 0

\* a restart is in progress: the old server's close() has not settled
RestartInProgress ==
  shutdown.pc = "closing" /\ shutdown.isRestart /\ exitCode = Null

\* C13 as claimed: while a restart is in progress the process does not exit,
\* however long close() takes, and when close() settles the loop calls
\* start() for a new server.
C13_RestartNeverExits ==
  [][RestartInProgress =>
       /\ exitCode' = Null
       /\ shutdown' # shutdown =>
            (loopPc' = "start" /\ nstarts' = nstarts + 1 /\ server' = 0)]_allVars

\* C14: a stop or restart signal received while the shutting-down flag is
\* set changes nothing: no second timer, no second close(), the shutdown in
\* progress keeps its kind (exit or restart), and the loop is untouched.
C14_SignalIgnoredWhileShuttingDown ==
  [][(nsignals' # nsignals /\ shuttingDown) =>
       UNCHANGED <<server, shuttingDown, restartResolver, forceExitTimer,
                   loopPc, shutdown, exitCode, signalsOn, nstarts, open>>]_allVars

\* C14 witness: of two signals the second arrived during the restart the
\* first began, and that restart is still in progress with its timer pending
C14_Witness ==
  /\ nsignals = 2
  /\ nignored = 1
  /\ shuttingDown
  /\ RestartInProgress
  /\ forceExitTimer
  /\ server = shutdown.server

\* the sends made for payload j, in call order
SendsOfPayload(j) == SelectSeq(sent, LAMBDA x : x.payload = j)

IsPrefix(a, b) == Len(a) <= Len(b) /\ a = SubSeq(b, 1, Len(a))

\* a send of payload j has failed
PayloadFailed(j) == \E id \in rejected : sent[id].payload = j

\* the loop is past payload j
PayloadPassed(j) ==
  \/ status = "returned"
  \/ status \in {"running", "threw"} /\ deliverPc.payload > j

\* the chunks the provider's chunker returns for a text and the resolved
\* limit; the whole text when the chunker is null
ExpectedTexts(prm, text) ==
  IF providerCaps[prm.provider] = "chunkText"
  THEN chunkText(text, prm.limit)
  ELSE <<text>>

\* C15: for a text-only payload the sendText calls are, in order, the chunks
\* the provider's chunker returns for the text and the resolved limit, and
\* for a provider whose chunker is null one sendText call carrying the whole
\* text: at every moment the calls made are a prefix of that sequence, and
\* once the loop is past a payload none of whose sends failed they are that
\* sequence.
C15_ChunkedSends ==
  \A j \in 1..Len(params.payloads) :
    Len(params.payloads[j].mediaUrls) = 0 =>
      LET made == SendsOfPayload(j)
          texts == [k \in 1..Len(made) |-> made[k].text]
          expected == ExpectedTexts(params, params.payloads[j].text)
      IN /\ \A k \in 1..Len(made) : made[k].kind = "text"
         /\ IsPrefix(texts, expected)
         /\ (PayloadPassed(j) /\ ~PayloadFailed(j)) => texts = expected

\* C15 witness: a three-character text went to WhatsApp with limit 2 as the
\* two chunks the chunker returns
C15_Witness ==
  /\ status = "returned"
  /\ params.provider = "whatsapp"
  /\ params.limit = 2
  /\ Len(params.payloads) = 1
  /\ params.payloads[1] = [text |-> <<"a", "b", "c">>, mediaUrls |-> <<>>]
  /\ Len(sent) = 2
  /\ sent[1].text = <<"a", "b">> /\ sent[2].text = <<"c">>
  /\ results = <<1, 2>>

\* C16: for a payload with N >= 1 media URLs and non-empty text the calls
\* are sendMedia calls only, one per URL in list order, the first with the
\* text as caption and the others with the empty caption: at every moment a
\* prefix of that sequence, and all N once the loop is past the payload with
\* no send of it failed.
C16_MediaCaptions ==
  \A j \in 1..Len(params.payloads) :
    (Len(params.payloads[j].mediaUrls) >= 1 /\ params.payloads[j].text # <<>>) =>
      LET made == SendsOfPayload(j)
          urls == params.payloads[j].mediaUrls
      IN /\ Len(made) <= Len(urls)
         /\ \A k \in 1..Len(made) :
              /\ made[k].kind = "media"
              /\ made[k].mediaUrl = Some(urls[k])
              /\ made[k].text =
                   IF k = 1 THEN params.payloads[j].text ELSE <<>>
         /\ (PayloadPassed(j) /\ ~PayloadFailed(j)) => Len(made) = Len(urls)

\* C16 witness: a payload with text and two media URLs was delivered as two
\* sendMedia calls, the caption on the first only
C16_Witness ==
  /\ status = "returned"
  /\ Len(params.payloads) = 1
  /\ params.payloads[1].text = <<"a", "b", "c">>
  /\ params.payloads[1].mediaUrls = <<"u1", "u2">>
  /\ Len(sent) = 2
  /\ sent[1].kind = "media" /\ sent[1].text = <<"a", "b", "c">>
  /\ sent[2].kind = "media" /\ sent[2].text = <<>>
  /\ results = <<1, 2>>

\* the indices of the payloads a send of which has failed
FailedPayloads == {j \in 1..Len(params.payloads) : PayloadFailed(j)}

\* C17: with bestEffort=true a send failure does not abort the delivery: the
\* call never throws; when it returns, every payload without a failed send
\* has had all its sends made, in payload order, and their results are in the
\* returned list; and the error callback, when supplied, has been called with
\* every failed payload exactly once and with no other payload.
C17_BestEffortContinues ==
  params.bestEffort =>
    /\ status # "threw"
    /\ \A a \in 1..Len(sent) : \A b \in 1..Len(sent) :
         a < b => sent[a].payload <= sent[b].payload
    /\ status = "returned" =>
         \A j \in 1..Len(params.payloads) :
           ~PayloadFailed(j) =>
             /\ Len(SendsOfPayload(j)) =
                  Len(PayloadSends(params, params.payloads[j]))
             /\ \A id \in 1..Len(sent) :
                  sent[id].payload = j => \E r \in 1..Len(results) : results[r] = id
    /\ params.onError =>
         /\ \A a \in 1..Len(onErrorCalls) : \A b \in 1..Len(onErrorCalls) :
              a # b => onErrorCalls[a] # onErrorCalls[b]
         /\ \A a \in 1..Len(onErrorCalls) : onErrorCalls[a] \in FailedPayloads
         /\ status = "returned" =>
              {onErrorCalls[a] : a \in 1..Len(onErrorCalls)} = FailedPayloads

\* C17 witness: of three payloads the send of the second failed; the first
\* and the third were delivered and the callback was called once, for the
\* second
C17_Witness ==
  /\ status = "returned"
  /\ params.bestEffort /\ params.onError
  /\ Len(params.payloads) = 3
  /\ FailedPayloads = {2}
  /\ onErrorCalls = <<2>>
  /\ Len(sent) = 3
  /\ results = <<1, 3>>

\* C18: with bestEffort not set the first send failure aborts the delivery:
\* the failed send is the last call made, the results are those of the sends
\* before it, the error callback is never called, and once the failure has
\* reached the function it throws and makes no further call.
C18_FailFast ==
  /\ [](~params.bestEffort =>
          /\ onErrorCalls = <<>>
          /\ \A id \in rejected : id = Len(sent)
          /\ status = "threw" =>
               /\ rejected = {Len(sent)}
               /\ results = [k \in 1..(Len(sent) - 1) |-> k])
  /\ [][(~params.bestEffort /\ rejected # {}) =>
          (status' = "threw" /\ sent' = sent /\ results' = results)]_allVars

\* C18 witness: the second of three payloads failed without bestEffort; the
\* supplied callback was not called and the third payload was never sent
C18_Witness ==
  /\ status = "threw"
  /\ ~params.bestEffort /\ params.onError
  /\ Len(params.payloads) = 3
  /\ \A j \in 1..3 : PayloadSends(params, params.payloads[j]) # <<>>
  /\ FailedPayloads = {2}
  /\ results = <<1>>
  /\ Len(sent) = 2
  /\ onErrorCalls = <<>>

\* C19: no two sends are ever in flight; the calls follow payload order and,
\* within a payload, the order of its chunks or media items; the results are
\* the fulfilled sends in send order, all of them when the call returns.
C19_Sequential ==
  /\ Cardinality(inflight) <= 1
  /\ \A j \in 1..Len(params.payloads) :
       LET made == SendsOfPayload(j)
           asked == PayloadSends(params, params.payloads[j])
       IN /\ Len(made) <= Len(asked)
          /\ \A k \in 1..Len(made) :
               /\ made[k].kind = asked[k].kind
               /\ made[k].text = asked[k].text
               /\ made[k].mediaUrl = asked[k].mediaUrl
  /\ \A a \in 1..Len(sent) : \A b \in 1..Len(sent) :
       a < b => sent[a].payload <= sent[b].payload
  /\ \A a \in 1..Len(results) :
       /\ results[a] \in 1..Len(sent)
       /\ results[a] \notin rejected \cup inflight
       /\ \A b \in 1..Len(results) : a < b => results[a] < results[b]
  /\ status \in {"returned", "threw"} =>
       {results[a] : a \in 1..Len(results)} = (1..Len(sent)) \ rejected

\* C19 witness: two payloads, chunks then media, were sent one after the
\* other and the results list them in send order
C19_Witness ==
  /\ status = "returned"
  /\ Len(params.payloads) = 2
  /\ Len(SendsOfPayload(1)) = 2 /\ sent[1].kind = "text"
  /\ Len(SendsOfPayload(2)) = 2 /\ sent[3].kind = "media"
  /\ results = <<1, 2, 3, 4>>

\* C20 as claimed: no delivery returns normally after a failed send without
\* the error callback having been called.
C20_FailureVisible ==
  (status = "returned" /\ rejected # {}) => onErrorCalls # <<>>

(* ------------------------------- sendMessage --------------------------- *)

\* a sendMessage call that sends: past its first step, not a dry run, for a
\* registered plugin
Sending ==
  /\ sendPc # "idle"
  /\ ~message.dryRun
  /\ message.provider \in ProviderIds

InvalidTarget ==
  /\ Sending
  /\ message.provider = "discord"
  /\ trim(message.to) = <<>>

\* C22: when sendMessage (direct delivery, not a dry run) is given a
\* destination that fails the plugin's target validation, it throws the
\* resolver's error to its caller and makes no sendText / sendMedia call and
\* no gateway call: nothing of the message is delivered.
C22_InvalidTargetThrows ==
  InvalidTarget =>
    /\ sendPc = "threw"
    /\ sendResult = Some(Thrown(Requires.discord))
    /\ sent = <<>>
    /\ inflight = {}
    /\ status = "idle"
    /\ gatewayCalls = <<>>

\* a Discord message with a destination of white space only has been refused
C22_Witness ==
  /\ InvalidTarget
  /\ message.to = <<" ">>
  /\ sendPc = "threw"

(* -------------------------- target resolution -------------------------- *)

\* the seven messaging providers
MessagingProviders == OutboundProviders \ {"webchat"}

\* a string of white space only, the empty string included
Blank(str) == \A k \in DOMAIN str : str[k] = " "

\* the destination of the call is absent, empty or blank
EmptyDestination == target.to = Null \/ Blank(Value(target.to))

\* the fallback list of the call is absent or empty, or its first entry is
\* blank
NoFallback ==
  \/ target.allowFrom = Null
  \/ Value(target.allowFrom) = <<>>
  \/ Blank(Value(target.allowFrom)[1])

\* the address syntax each provider expects
AddressSyntax ==
  [whatsapp |-> "<E.164>",
   telegram |-> "<chatId>",
   discord |-> "<channelId|user:ID|channel:ID>",
   slack |-> "<channelId|user:ID|channel:ID>",
   signal |-> "<E.164|group:ID|signal:group:ID|signal:+E.164>",
   imessage |-> "<handle|chat_id:ID>",
   msteams |-> "<conversationId|user:ID|conversation:ID>"]

\* C23: resolveOutboundTarget with an empty destination (absent, empty or
\* blank) and no usable fallback list returns { ok: false } with an error
\* whose message names the address syntax the provider expects, for each of
\* the seven messaging providers; the call sends nothing and calls nothing.
C23_EmptyDestinationFails ==
  (/\ resolution # Null
   /\ target.provider \in MessagingProviders
   /\ EmptyDestination
   /\ NoFallback) =>
    /\ ~Value(resolution).ok
    /\ \E k \in DOMAIN Value(resolution).error :
         Value(resolution).error[k] = AddressSyntax[target.provider]
    /\ sent = <<>>
    /\ gatewayCalls = <<>>

\* the Slack resolver has refused a destination of white space
C23_Witness ==
  /\ resolution # Null
  /\ target.provider = "slack"
  /\ target.to = Some(<<" ">>)
  /\ NoFallback
  /\ ~Value(resolution).ok

\* C24 as stated: resolveOutboundTarget with a non-empty destination string
\* returns { ok: true }, for every provider value and every non-empty string.
C24_NonEmptyResolves ==
  (/\ resolution # Null
   /\ target.to # Null
   /\ Value(target.to) # <<>>) =>
    Value(resolution).ok

\* C24: resolveOutboundTarget with a destination that is not blank returns
\* { ok: true } with the destination trimmed, and for WhatsApp normalized to
\* its E.164 form, for each of the seven messaging providers; a blank
\* destination is treated as an empty one, and for webchat no destination
\* resolves.
C24_NonBlankResolves ==
  resolution # Null =>
    /\ (/\ target.provider \in MessagingProviders
        /\ target.to # Null
        /\ ~Blank(Value(target.to))) =>
         /\ Value(resolution).ok
         /\ Value(resolution).to =
              IF target.provider = "whatsapp"
              THEN normalizeE164(trim(Value(target.to)))
              ELSE trim(Value(target.to))
         /\ target.provider = "whatsapp" =>
              /\ Head(Value(resolution).to) = "+"
              /\ \A k \in DOMAIN Value(resolution).to :
                   /\ Value(resolution).to[k] \in {"+", "1"}
         /\ target.provider # "whatsapp" =>
              /\ Head(Value(resolution).to) # " "
              /\ Value(resolution).to[Len(Value(resolution).to)] # " "
    /\ (/\ target.provider \in MessagingProviders \ {"whatsapp"}
        /\ target.to # Null
        /\ Blank(Value(target.to))) =>
         ~Value(resolution).ok
    /\ target.provider = "webchat" => ~Value(resolution).ok

\* the Discord resolver has accepted a destination with leading white space
C24_Witness ==
  /\ resolution # Null
  /\ target.provider = "discord"
  /\ target.to = Some(<<" ", "x">>)
  /\ Value(resolution).ok
  /\ Value(resolution).to = <<"x">>

(* --------------------------- start failures ---------------------------- *)

\* params.start() has rejected
StartFailed == loopPc \in {"explain", "failed"}

\* C25: when start() rejects, on the first start or on a restart, the loop
\* removes its signal handlers and rejects, and the command logs "Gateway
\* failed to start" and exits with code 1; the process exits with code 1 in
\* no other case, and a shutdown driven by a signal exits with code 0.
C25_StartFailureExitsOne ==
  /\ StartFailed => ~signalsOn /\ reported
  /\ loopPc = "failed" => exitCode = Some(1)
  /\ exitCode = Some(1) => loopPc = "failed"
  /\ reported => StartFailed
  /\ (exitCode # Null /\ ~StartFailed) => exitCode = Some(0)
  /\ exitCode = Some(0) => nsignals > 0

\* the start after a restart has failed and the process has exited with 1
C25_Witness ==
  /\ loopPc = "failed"
  /\ nstarts = 2
  /\ reported
  /\ ~signalsOn
  /\ exitCode = Some(1)

(* ------------------------ overlapping signals -------------------------- *)

\* a stop signal was delivered, the process runs, and neither a close that
\* ends in exit nor the forced-exit timer is pending: nothing will end it
StopLost ==
  /\ stopRequested
  /\ exitCode = Null
  /\ ~forceExitTimer
  /\ ~(shutdown.pc = "closing" /\ ~shutdown.isRestart)

\* C26 as claimed: once a stop signal was delivered, at whatever time, the
\* process has exited or its exit is pending; overlapping stop and restart
\* signals never leave the process running after a stop was requested.
C26_StopNeverLost == ~StopLost

(* --------------------------- overlapping starts ------------------------ *)

\* the connection tasks of an account that run: startAccount was invoked,
\* its promise has not settled and its signal is not aborted
RunningTasks(p, id) ==
  {t \in LiveTasks(p, id) : conns[t].state = "pending" /\ ~conns[t].aborted}

\* C27 as claimed: however startProvider calls for an account overlap, the
\* account has at most one running connection task (gateway.startAccount is
\* invoked once for it), and that task is the one registered.
C27_SingleStart ==
  \A p \in ProviderIds : \A id \in Accounts[p] :
    /\ Cardinality(RunningTasks(p, id)) <= 1
    /\ \A t \in RunningTasks(p, id) : MapGet(providerStores[p].tasks, id) = t

\* C28 as claimed: in every state, every connection task that was started
\* and has not settled is the task registered under its account id, and the
\* cancellation handle stored for that id is the task's own, so that
\* stopProvider can cancel it.
C28_NoOrphanTask ==
  \A t \in DOMAIN conns :
    conns[t].state = "pending" =>
      /\ Tracked(conns[t].providerId, conns[t].accountId)
      /\ providerStores[conns[t].providerId].tasks[conns[t].accountId] = t
      /\ HasAbort(conns[t].providerId, conns[t].accountId)
      /\ providerStores[conns[t].providerId].aborts[conns[t].accountId] = t

(* ------------------------- provider-wide stops ------------------------- *)

\* this step issues a stopProvider call of plugin p
StopCalled(p) ==
  /\ ncalls' = ncalls + 1
  /\ IssuedCall'.op = "stop"
  /\ IssuedCall'.providerId = p

\* a stopProvider call of plugin p returns in this step: at once, or when
\* the last of its callbacks resumes
StopReturns(p) ==
  \/ /\ StopCalled(p)
     /\ (ncalls + 1) \notin DOMAIN calls'
  \/ \E c \in DOMAIN calls :
       /\ calls[c].op = "stop"
       /\ calls[c].providerId = p
       /\ c \notin DOMAIN calls'

\* C30: a stopProvider call for a plugin covers the ids tracked in the
\* plugin's store together with the ids the configuration lists, and when
\* it returns no task and no cancellation handle is tracked for the plugin,
\* also for an account that was started and has since been removed from the
\* configuration. (The plugins have one account each: a call given that
\* account id covers the same ids.)
C30_StopCoversTracked ==
  [][\A p \in ProviderIds :
       /\ StopCalled(p) =>
            DOMAIN IssuedCall'.flows =
              DOMAIN providerStores[p].tasks \cup DOMAIN providerStores[p].aborts
                \cup IssuedCall'.listed
       /\ StopReturns(p) =>
            /\ providerStores'[p].tasks = EmptyMap
            /\ providerStores'[p].aborts = EmptyMap]_vars

\* a stop of Discord, called when the configuration no longer listed the
\* account whose task 1 was running, has awaited that task and returned
C30_Witness ==
  /\ returned.op = "stop"
  /\ returned.providerId = "discord"
  /\ returned.listed = {}
  /\ DOMAIN returned.flows = {"default"}
  /\ returned.flows["default"].pc = "stopped"
  /\ returned.flows["default"].task = 1
  /\ providerStores["discord"].tasks = EmptyMap
  /\ providerStores["discord"].aborts = EmptyMap

(* ------------------------------ stop order ----------------------------- *)

\* the stopProvider callback of account id of call c is suspended
StopPending(c, id) ==
  /\ calls[c].op = "stop"
  /\ calls[c].flows[id].pc \in {"stopAccount", "awaitTask"}

\* this step resumes the stopProvider callback of account id of plugin p
\* that was suspended in await plugin.gateway.stopAccount(...)
HookResumed(c, p, id) ==
  /\ c \in DOMAIN calls
  /\ calls[c].op = "stop"
  /\ calls[c].providerId = p
  /\ id \in DOMAIN calls[c].flows
  /\ calls[c].flows[id].pc = "stopAccount"
  /\ FlowPc(c, id)' # "stopAccount"

\* C29: the stopProvider callback of an account works in this order. The
\* account's controller is aborted in the call itself, before the callback
\* first suspends. With a plugin that declares stopAccount the hook is
\* invoked next, with the signal of that same controller, and awaited: while
\* it is pending, and when it settles, the callback has cleared or written
\* nothing. Then the tracked task is awaited. Only when it has settled does
\* the callback delete the two entries and write running=false and
\* lastStopAt.
C29_StopOrder ==
  /\ [](\A c \in DOMAIN calls : \A id \in DOMAIN calls[c].flows :
          StopPending(c, id) =>
            /\ calls[c].flows[id].abort \in DOMAIN conns =>
                 conns[calls[c].flows[id].abort].aborted
            /\ calls[c].providerId \in hooks =>
                 calls[c].flows[id].signal = Some(calls[c].flows[id].abort))
  /\ [][\A p \in ProviderIds : \A id \in Accounts[p] :
          /\ (StopIssued(p, id) /\ p \in hooks) =>
               /\ IssuedCall'.flows[id].pc = "stopAccount"
               /\ Entry(p, id)' = Entry(p, id)
          /\ \A c \in DOMAIN calls :
               /\ HookResumed(c, p, id) =>
                    /\ FlowPc(c, id)' \in {"awaitTask", "threw"}
                    /\ Entry(p, id)' = Entry(p, id)
               /\ StopResumed(c, p, id) =>
                    /\ p \in hooks => calls[c].flows[id].signal # Null
                    /\ calls[c].flows[id].task \notin DOMAIN conns
                    /\ FlowPc(c, id)' = "stopped"
                    /\ ~Tracked(p, id)' /\ ~HasAbort(p, id)'
                    /\ ~Running(Snapshot(p, id)')
                    /\ Field(Snapshot(p, id)', "lastStopAt") = Some(now)]_vars

\* a stop of an account whose task 1 was running has gone through the hook,
\* called with the signal of controller 1, and through await task, and has
\* returned
C29_Witness ==
  /\ returned.op = "stop"
  /\ returned.providerId \in hooks
  /\ \E id \in DOMAIN returned.flows :
       /\ returned.flows[id].pc = "stopped"
       /\ returned.flows[id].task = 1
       /\ returned.flows[id].abort = 1
       /\ returned.flows[id].signal = Some(1)
       /\ StoppedAndCleared(returned.providerId, id)


\* this step starts account id of plugin p: it runs lines 261-296
AccountStarted(p, id) ==
  /\ ntasks' = ntasks + 1
  /\ conns'[ntasks + 1].providerId = p
  /\ conns'[ntasks + 1].accountId = id

\* the last call that returned is a startProvider call that started account
\* id of plugin p
StartReturned(p, id) ==
  /\ returned.op = "start"
  /\ returned.providerId = p
  /\ id \in DOMAIN returned.flows
  /\ returned.flows[id].pc = "started"

\* C31: the start of an enabled, configured account stores the fresh abort
\* controller and writes running = true, lastStartAt = now, lastError = null
\* over whatever an earlier run left, and registers the task that
\* startAccount returned; and whenever a startProvider call has returned
\* after starting the account and the snapshot says running, a task is
\* registered for the account.
C31_StartRecorded ==
  /\ [][\A key \in Keys :
          AccountStarted(key[1], key[2]) =>
            /\ MapGet(providerStores'[key[1]].aborts, key[2]) = ntasks + 1
            /\ MapGet(providerStores'[key[1]].tasks, key[2]) = ntasks + 1
            /\ conns'[ntasks + 1].state = "pending"
            /\ ~conns'[ntasks + 1].aborted
            /\ MapHas(providerStores'[key[1]].runtimes, key[2])
            /\ providerStores'[key[1]].runtimes[key[2]].running
            /\ providerStores'[key[1]].runtimes[key[2]].lastStartAt = Some(now)
            /\ providerStores'[key[1]].runtimes[key[2]].lastError = Null]_allVars
  /\ [](\A key \in Keys :
          StartReturned(key[1], key[2]) /\ Running(Snapshot(key[1], key[2]))
            => Tracked(key[1], key[2]))

\* a startProvider call has returned after starting, for the second time, an
\* account that ran and stopped before; the account is running with its task
\* registered and no error
C31_Witness ==
  \E key \in Keys :
    /\ StartReturned(key[1], key[2])
    /\ Running(Snapshot(key[1], key[2]))
    /\ Field(Snapshot(key[1], key[2]), "lastStopAt") # Null
    /\ Field(Snapshot(key[1], key[2]), "lastError") = Null
    /\ Tracked(key[1], key[2])
    /\ HasAbort(key[1], key[2])


\* the fields named by the patches the manager writes: disabled and not
\* configured (lines 239-243, 252-257), start (263-268), .catch (284),
\* .finally and stop (290-294, 341-345), the plugins' setStatus,
\* markWhatsAppLoggedOut (359-365); accountId is in every patch
PatchFields ==
  {{"running", "lastError"}, {"running", "lastStartAt", "lastError"},
   {"lastError"}, {"running", "lastStopAt"}, {"connected"}, {"bot"},
   {"running", "connected", "lastError"}}

\* the fields of snapshot b that snapshot a lacks or holds with another value
ChangedFields(a, b) ==
  {k \in DOMAIN b : k \notin DOMAIN a \/ a[k] # b[k]}

\* C32: snapshot writes merge and never delete. In every step and for every
\* account, a stored snapshot stays stored, keeps all its fields, and the
\* fields whose values change are among those named by one patch of the
\* manager; a stored snapshot's accountId is the key it is stored under.
C32_SnapshotsMerge ==
  /\ [](\A key \in Keys :
          MapHas(providerStores[key[1]].runtimes, key[2])
            => providerStores[key[1]].runtimes[key[2]].accountId = key[2])
  /\ [][\A key \in Keys :
          /\ MapHas(providerStores[key[1]].runtimes, key[2])
               => MapHas(providerStores'[key[1]].runtimes, key[2])
          /\ DOMAIN Snapshot(key[1], key[2]) \subseteq
               DOMAIN getRuntime(providerStores', key[1], key[2])
          /\ \E named \in PatchFields :
               ChangedFields(Snapshot(key[1], key[2]),
                             getRuntime(providerStores', key[1], key[2]))
                 \subseteq named]_allVars

\* a Discord snapshot that four writes have built up: the start, the plugin's
\* setStatus with another accountId, the task's .catch and its .finally
C32_Witness ==
  /\ MapHas(providerStores.discord.runtimes, DEFAULT_ACCOUNT_ID)
  /\ LET snap == providerStores.discord.runtimes[DEFAULT_ACCOUNT_ID]
     IN /\ "bot" \in DOMAIN snap
        /\ snap.accountId = DEFAULT_ACCOUNT_ID
        /\ ~snap.running
        /\ snap.lastStartAt # Null
        /\ snap.lastStopAt # Null
        /\ snap.lastError = Some("connection lost")


\* what getRuntimeSnapshot() reports for WhatsApp account id from the stores,
\* while loadConfig() returns c
Reported(stores, c, id) == getRuntimeSnapshot(stores, c).whatsapp.accounts[id]

\* every status read reports the WhatsApp account as logged out
LoggedOutReported(id) ==
  \A c \in Configs :
    /\ ~Running(Reported(providerStores, c, id))
    /\ Reported(providerStores, c, id).connected = FALSE
    /\ Reported(providerStores, c, id).lastError = Some("logged out")

\* C33: once markWhatsAppLoggedOut(true, id) has made the status read report
\* the WhatsApp account as not running, not connected, with lastError
\* "logged out", the account is reported as not connected until a new start
\* of the account: no step other than a start of a task leads from that
\* report to one with connected = true.
C33_LoggedOutUntilRestart ==
  [][\A id \in Accounts.whatsapp : \A c \in Configs :
       LoggedOutReported(id) /\ ntasks' = ntasks
         => Reported(providerStores', c, id).connected = FALSE]_allVars


\* send id is the k-th send of its payload
ItemOf(id) ==
  Cardinality({a \in 1..id : sent[a].payload = sent[id].payload})

\* C34: with bestEffort=true a send that fails in the middle of a payload
\* keeps the results of the payload's earlier sends in the list, ends the
\* payload (no further chunk or media item of it is sent), and the delivery
\* goes on with the next payload: when the call returns, every payload that
\* asks for a send has had at least its first send made.
C34_FailureEndsPayload ==
  params.bestEffort =>
    /\ \A id \in rejected :
         /\ \A a \in 1..Len(sent) :
              sent[a].payload = sent[id].payload => a <= id
         /\ \A a \in 1..(id - 1) :
              sent[a].payload = sent[id].payload
                => \E r \in 1..Len(results) : results[r] = a
         /\ \A r \in 1..Len(results) : results[r] # id
    /\ status = "returned" =>
         \A j \in 1..Len(params.payloads) :
           PayloadSends(params, params.payloads[j]) # <<>>
             => \E a \in 1..Len(sent) : sent[a].payload = j

\* the second of the three chunks of the first payload failed: the third
\* chunk was not sent, the second payload was delivered and the results are
\* those of the first chunk and of the second payload
C34_Witness ==
  /\ status = "returned"
  /\ params.bestEffort
  /\ Len(params.payloads) = 2
  /\ Len(PayloadSends(params, params.payloads[1])) = 3
  /\ rejected = {2}
  /\ sent[2].payload = 1 /\ ItemOf(2) = 2
  /\ Len(sent) = 3
  /\ sent[3].payload = 2
  /\ results = <<1, 3>>


(* ------------------------------ restarts ------------------------------- *)

\* this step delivers a restart signal that request() acts on
RestartAccepted ==
  /\ nsignals' = nsignals + 1
  /\ ~shuttingDown
  /\ exitCode' = Null
  /\ ~(shutdown'.pc = "closing" /\ ~shutdown'.isRestart)

\* C35 as claimed: no restart request is lost. A restart signal that
\* request() acts on, also one received while start() is pending and no
\* server exists, leaves a restart under way: the close whose settlement
\* wakes the loop, which then calls start() anew.
C35_RestartNeverLost ==
  [][RestartAccepted => RestartInProgress']_allVars


\* this step is the settlement of the server.close() of a shutdown
CloseSettled == shutdown.pc = "closing" /\ shutdown'.pc # "closing"

\* C36: the forced-exit timer is cancelled as soon as server.close()
\* settles. A timer is pending only while a close is pending; the step in
\* which the close settles leaves no timer pending and, for a restart, the
\* shutting-down flag false with the process running; the process exits
\* through the timer only while a close is pending; and a signal is ignored
\* only while a close is pending, so the signal after a finished restart is
\* handled.
C36_TimerCancelled ==
  /\ [](forceExitTimer => shutdown.pc = "closing" /\ shuttingDown)
  /\ [][CloseSettled =>
          /\ ~forceExitTimer'
          /\ shutdown.isRestart => (~shuttingDown' /\ exitCode' = Null)]_allVars
  /\ [][(forceExitTimer /\ ~forceExitTimer' /\ exitCode' # Null) =>
          shutdown.pc = "closing"]_allVars
  /\ [][nignored' # nignored => shutdown.pc = "closing"]_allVars

\* a restart finished within the grace period and the server it started was
\* running when the next signal arrived; that signal, a stop, was handled:
\* its close of the second server is pending with its own timer
C36_Witness ==
  /\ nsignals = 2
  /\ nignored = 0
  /\ nstarts = 2
  /\ ~shutdown.isRestart
  /\ shutdown.pc = "closing"
  /\ shutdown.server = 2
  /\ forceExitTimer
  /\ exitCode = Null


C38_WhatsAppFallback ==
  (resolution # Null /\ target.provider = "whatsapp") =>
    /\ ~EmptyDestination =>
         Value(resolution) = Resolved(normalizeE164(Value(target.to)))
    /\ (EmptyDestination /\ ~NoFallback) =>
         Value(resolution) =
           Resolved(normalizeE164(Value(target.allowFrom)[1]))
    /\ (EmptyDestination /\ NoFallback) =>
         Value(resolution) = Failed(Requires.whatsapp)
    /\ ~Value(resolution).ok => (EmptyDestination /\ NoFallback)
    /\ Value(resolution).ok =>
         /\ Head(Value(resolution).to) = "+"
         /\ \A k \in DOMAIN Value(resolution).to :
              Value(resolution).to[k] \in {"+", "1"}

\* a blank destination fell back to the first allow-list entry, which was
\* returned in E.164 form
C38_Witness ==
  /\ resolution # Null
  /\ target.provider = "whatsapp"
  /\ target.to = Some(<<" ">>)
  /\ target.allowFrom = Some(<<<<"1">>, <<"x">>>>)
  /\ Value(resolution) = Resolved(<<"+", "1">>)


(* --------------------------- heartbeat target -------------------------- *)

\* cfg.whatsapp.allowFrom of the call, [] when absent
RawAllow ==
  IF heartbeat.allowFrom = Null THEN <<>> ELSE Value(heartbeat.allowFrom)

\* the entries of a list
Members(list) == {list[k] : k \in DOMAIN list}

\* the allow list with every entry E.164-normalized
NormalizedEntries == [k \in DOMAIN RawAllow |-> normalizeE164(RawAllow[k])]

\* the normalized entries that hold more than the "+" sign
ListedNumbers == SelectSeq(NormalizedEntries, LAMBDA val : Len(val) > 1)

\* the call names no provider: the target is "last" (or not a known value)
\* and the session entry has no last provider other than webchat
NoProvider ==
  /\ heartbeat.target \notin {Some("whatsapp"), Some("telegram"), Some("none")}
  /\ \/ heartbeat.entry = Null
     \/ Value(heartbeat.entry).lastProvider \in {Null, Some("webchat")}

\* the call names no destination: heartbeat.to is absent or blank and the
\* session entry has no last destination
NoDestination ==
  /\ heartbeat.to = Null \/ Blank(Value(heartbeat.to))
  /\ \/ heartbeat.entry = Null
     \/ Value(heartbeat.entry).lastTo = Null
     \/ Blank(Value(Value(heartbeat.entry).lastTo))

\* the target "none", no provider or no destination gives provider "none"
NoTargetIsNone ==
  /\ heartbeat.target = Some("none") =>
       Value(heartbeatTarget) =
         OutboundTarget("none", Null, Some("target-none"))
  /\ (NoProvider \/ NoDestination) => Value(heartbeatTarget).provider = "none"

\* the returned WhatsApp destination is an entry of list: the resolved
\* target when it is listed, else the first entry with reason
\* "allowFrom-fallback"
WithinList(list) ==
  /\ Value(heartbeatTarget).to # Null
  /\ Value(Value(heartbeatTarget).to) \in Members(list)
  /\ Value(heartbeatTarget).reason \in {Null, Some("allowFrom-fallback")}
  /\ Value(heartbeatTarget).reason # Null =>
       Value(heartbeatTarget).to = Some(list[1])
  /\ (heartbeat.to # Null /\ ~Blank(Value(heartbeat.to))) =>
       IF normalizeE164(Value(heartbeat.to)) \in Members(list)
       THEN Value(heartbeatTarget) =
              OutboundTarget("whatsapp",
                             Some(normalizeE164(Value(heartbeat.to))), Null)
       ELSE Value(heartbeatTarget).reason = Some("allowFrom-fallback")

\* C39 as claimed: when whatsapp.allowFrom holds no "*" and, after E.164
\* normalization, is not empty, a returned WhatsApp destination is a member
\* of the normalized allow list; and the target "none", no provider or no
\* destination gives provider "none".
C39_WithinAllowList ==
  heartbeatTarget # Null =>
    /\ (/\ Value(heartbeatTarget).provider = "whatsapp"
        /\ <<"*">> \notin Members(RawAllow)
        /\ NormalizedEntries # <<>>) => WithinList(NormalizedEntries)
    /\ NoTargetIsNone

\* C39: when whatsapp.allowFrom holds no "*" and at least one of its entries,
\* E.164-normalized, holds more than the "+" sign, a returned WhatsApp
\* destination is one of those entries: the resolved target when it is
\* listed, else the first of them with reason "allowFrom-fallback"; and the
\* target "none", no provider or no destination gives provider "none".
C39_WithinListedNumbers ==
  heartbeatTarget # Null =>
    /\ (/\ Value(heartbeatTarget).provider = "whatsapp"
        /\ <<"*">> \notin Members(RawAllow)
        /\ ListedNumbers # <<>>) => WithinList(ListedNumbers)
    /\ NoTargetIsNone

\* the destination given is not on the allow list: the first listed number
\* is returned in its place
C39_Witness ==
  /\ heartbeat.target = Some("whatsapp")
  /\ heartbeat.to = Some(<<"x">>)
  /\ heartbeat.allowFrom = Some(<<<<"+", "1", "1">>, <<"1">>>>)
  /\ heartbeatTarget =
       Some(OutboundTarget("whatsapp", Some(<<"+", "1", "1">>),
                           Some("allowFrom-fallback")))


(* ------------------------------- C40 ---------------------------------- *)

\* the timeout the request carries, 10000 when it carries none
SuppliedTimeout ==
  IF statusParams.timeoutMs = Null THEN 10000 ELSE Value(statusParams.timeoutMs)

\* the call `inv` was made for a request with probe=true, for an account
\* that is enabled and configured
ProbeAllowed(inv) ==
  /\ statusParams.valid
  /\ statusParams.probe = Some(TRUE)
  /\ <<inv.providerId, inv.accountId>> \notin statusParams.cfg.disabled
  /\ inv.providerId = "discord" /\ statusParams.cfg.discordToken

\* C40 as stated: probeAccount and auditAccount are invoked only when the
\* request carries probe=true and only for accounts that are enabled and
\* configured, and every invocation is given the caller-supplied timeoutMs
\* (10000 when none is supplied).
C40_SuppliedTimeout ==
  \A i \in DOMAIN invocations :
    /\ ProbeAllowed(invocations[i])
    /\ invocations[i].timeoutMs = SuppliedTimeout

\* C40, amended: probeAccount and auditAccount are invoked only when the
\* request carries probe=true and only for accounts that are enabled and
\* configured, and every invocation is given the caller-supplied timeoutMs
\* raised to at least 1000 (10000 when none is supplied).
C40_TimeoutAtLeast1000 ==
  \A i \in DOMAIN invocations :
    /\ ProbeAllowed(invocations[i])
    /\ invocations[i].timeoutMs =
         IF SuppliedTimeout < 1000 THEN 1000 ELSE SuppliedTimeout

\* a request with probe=true and timeoutMs 500 was answered after the probe
\* and the audit of the Discord account were both invoked
C40_Witness ==
  /\ statusPc.stage = "responded"
  /\ statusParams.probe = Some(TRUE)
  /\ statusParams.timeoutMs = Some(500)
  /\ Len(invocations) = 2
  /\ invocations[1].hook = "probeAccount"
  /\ invocations[2].hook = "auditAccount"

====
